---- MODULE Spec2Model ----
(***************************************************************************)
(* A model of templater (github.com/menta2k/templater): the value loader   *)
(* (YAML file, environment, --set overrides), the deep merge of the value  *)
(* sources, the strict-mode template wrapper and the processor that drives *)
(* them.                                                                   *)
(*                                                                         *)
(* Go strings are sequences of one-character strings, so that splitting,   *)
(* trimming, case folding and number parsing are computed as the code      *)
(* computes them.  Go maps and slices live in a heap of containers, so     *)
(* that sharing between a merged tree and its sources is visible.          *)
(***************************************************************************)
EXTENDS Integers, Sequences, FiniteSets, TLC

VARIABLES
    pc,           \* position of the running operation
    heap,         \* the containers (maps, slices) allocated so far
    config,       \* config.Config of the run / the arguments of the call
    environ,      \* os.Environ(): the "NAME=value" entries, in order
    yamlValues,   \* result of LoadYAMLValues
    envValues,    \* result of LoadEnvValues
    setValues,    \* result of ParseSetValues
    allValues,    \* result of MergeValues (or the dst of a deepMerge call)
    strictTemplate, \* the StrictTemplate wrapper
    out,          \* the value an operation returned
    err,          \* the error an operation returned (Nil when none)
    fs,           \* the file system: the entry at every path that exists
    templateFiles,   \* the template files of the run, in processing order
    index,           \* position in templateFiles of the file being processed
    templateContent  \* the bytes read from that file

vars == <<pc, heap, config, environ, yamlValues, envValues, setValues,
          allValues, strictTemplate, out, err, fs, templateFiles, index,
          templateContent>>

\* the variables of a run of Process that single calls leave alone
run == <<fs, templateFiles, index, templateContent>>
\* no run of Process takes place
NoRun == fs = <<>> /\ templateFiles = <<>> /\ index = 0 /\ templateContent = <<>>

-----------------------------------------------------------------------------
(* Go strings *)

LowerLetters == <<"a","b","c","d","e","f","g","h","i","j","k","l","m",
                  "n","o","p","q","r","s","t","u","v","w","x","y","z">>
UpperLetters == <<"A","B","C","D","E","F","G","H","I","J","K","L","M",
                  "N","O","P","Q","R","S","T","U","V","W","X","Y","Z">>
Digits == <<"0","1","2","3","4","5","6","7","8","9">>

Range(f) == {f[i] : i \in DOMAIN f}

PosIn(c, seq) == CHOOSE i \in DOMAIN seq : seq[i] = c

\* unicode.ToLower / unicode.ToUpper on one character
LowerChar(c) == IF c \in Range(UpperLetters) THEN LowerLetters[PosIn(c, UpperLetters)] ELSE c
UpperChar(c) == IF c \in Range(LowerLetters) THEN UpperLetters[PosIn(c, LowerLetters)] ELSE c

\* strings.ToLower, strings.ToUpper
ToLower(s) == [i \in DOMAIN s |-> LowerChar(s[i])]
ToUpper(s) == [i \in DOMAIN s |-> UpperChar(s[i])]

\* s[from:] and s[:to] with Go's 0-based offsets
SliceFrom(s, from) == SubSeq(s, from + 1, Len(s))
SliceTo(s, to) == SubSeq(s, 1, to)

\* strings.Index: the 0-based offset of the first occurrence of sub, or -1
Index(s, sub) ==
    LET hits == {i \in 0..(Len(s) - Len(sub)) : SubSeq(s, i + 1, i + Len(sub)) = sub}
    IN  IF hits = {} THEN -1 ELSE CHOOSE i \in hits : \A j \in hits : i <= j

\* strings.Contains
Contains(s, sub) == Index(s, sub) >= 0

\* strings.HasSuffix, strings.TrimSuffix
HasSuffix(s, suffix) ==
    /\ Len(s) >= Len(suffix)
    /\ SubSeq(s, Len(s) - Len(suffix) + 1, Len(s)) = suffix
TrimSuffix(s, suffix) == IF HasSuffix(s, suffix) THEN SliceTo(s, Len(s) - Len(suffix)) ELSE s

\* strings.Split for a non-empty separator
RECURSIVE Split(_, _)
Split(s, sep) ==
    LET i == Index(s, sep)
    IN  IF i < 0 THEN <<s>>
        ELSE <<SliceTo(s, i)>> \o Split(SliceFrom(s, i + Len(sep)), sep)

\* SplitN without its limit: cut at every separator
SplitAtEvery(s, sep) == Split(s, sep)
\* strings.SplitN(s, sep, 2): cut at the first separator only
SplitN2(s, sep) ==
    LET i == Index(s, sep)
    IN  IF i < 0 THEN <<s>> ELSE <<SliceTo(s, i), SliceFrom(s, i + Len(sep))>>

\* strings.Join
RECURSIVE Join(_, _)
Join(parts, sep) ==
    IF parts = <<>> THEN <<>>
    ELSE IF Len(parts) = 1 THEN parts[1]
    ELSE parts[1] \o sep \o Join(Tail(parts), sep)

\* unicode.IsSpace on the characters of the model
WhiteSpace == {" ", "\t", "\n", "\r"}

\* strings.TrimSpace
RECURSIVE TrimLeft(_)
TrimLeft(s) == IF s # <<>> /\ Head(s) \in WhiteSpace THEN TrimLeft(Tail(s)) ELSE s
RECURSIVE TrimRight(_)
TrimRight(s) ==
    IF s # <<>> /\ s[Len(s)] \in WhiteSpace THEN TrimRight(SliceTo(s, Len(s) - 1)) ELSE s
TrimSpace(s) == TrimRight(TrimLeft(s))

-----------------------------------------------------------------------------
(* Go values: scalars are records tagged by their dynamic type; a map or a *)
(* slice is a reference into the heap.                                     *)

Nil == [t |-> "nil"]
VStr(s) == [t |-> "string", s |-> s]
VBool(b) == [t |-> "bool", b |-> b]
VInt(i) == [t |-> "int", i |-> i]
\* a float64: m * 10^e, m without a factor 10; k tells a number from Inf and NaN
VFloat(k, m, e) == [t |-> "float", k |-> k, m |-> m, e |-> e]
VRef(a) == [t |-> "ref", a |-> a]

\* map[string]any ("map"), map[interface{}]interface{} as yaml.v2 builds it
\* for a nested mapping ("ymap"), []interface{} ("slice")
ContainerKinds == {"map", "ymap", "slice"}

\* A literal is a value written out in full, its containers inline:
\* [t |-> kind, m |-> slots].  Alloc builds it in the heap.
LMap(m) == [t |-> "map", m |-> m]
LYMap(m) == [t |-> "ymap", m |-> m]
LSlice(m) == [t |-> "slice", m |-> m]
IsContainerLit(l) == l.t \in ContainerKinds

\* the elements of a finite set in some fixed order (Go's map iteration order
\* is unspecified; the operations below do not depend on it)
RECURSIVE SetToSeq(_)
SetToSeq(S) ==
    IF S = {} THEN <<>>
    ELSE LET x == CHOOSE y \in S : TRUE IN <<x>> \o SetToSeq(S \ {x})

\* make(map[string]any)
EmptyMap == [kind |-> "map", m |-> <<>>]

RECURSIVE Alloc(_, _)
RECURSIVE AllocSlots(_, _, _)
\* the container at address a gets the slots r.m built in heap r.h
AllocDone(a, r) == [h |-> [r.h EXCEPT ![a].m = r.m], v |-> VRef(a)]
AllocRest(k, first, rest) == [h |-> rest.h, m |-> (k :> first.v) @@ rest.m]
AllocNext(m, keys, first) == AllocRest(Head(keys), first, AllocSlots(first.h, m, Tail(keys)))
\* build the literal lit in heap h: [h |-> the new heap, v |-> the value]
Alloc(h, lit) ==
    IF ~IsContainerLit(lit) THEN [h |-> h, v |-> lit]
    ELSE AllocDone(Len(h) + 1,
                   AllocSlots(Append(h, [kind |-> lit.t, m |-> <<>>]), lit.m,
                              SetToSeq(DOMAIN lit.m)))
AllocSlots(h, m, keys) ==
    IF keys = <<>> THEN [h |-> h, m |-> <<>>]
    ELSE AllocNext(m, keys, Alloc(h, m[Head(keys)]))

\* the literal a value stands for in heap h
RECURSIVE Deref(_, _)
Deref(h, v) ==
    IF v.t # "ref" THEN v
    ELSE [t |-> h[v.a].kind, m |-> [k \in DOMAIN h[v.a].m |-> Deref(h, h[v.a].m[k])]]

\* the containers reachable from a value
RECURSIVE Reach(_, _)
Reach(h, v) ==
    IF v.t # "ref" THEN {}
    ELSE {v.a} \cup UNION {Reach(h, h[v.a].m[k]) : k \in DOMAIN h[v.a].m}

\* v.(map[string]any) succeeds
IsMap(h, v) == v.t = "ref" /\ h[v.a].kind = "map"

\* m[k] = v on the map at address a
SetKey(h, a, k, v) == [h EXCEPT ![a].m = (k :> v) @@ h[a].m]

-----------------------------------------------------------------------------
(* strconv.Atoi and strconv.ParseFloat on decimal strings.  The strings of *)
(* the model are short: the range error of Atoi (more than 18 digits) is   *)
(* outside them, and so are the underscore and hexadecimal forms           *)
(* ParseFloat also accepts.                                                *)

IsDigit(c) == c \in Range(Digits)
AllDigits(s) == \A i \in DOMAIN s : IsDigit(s[i])
DigitVal(c) == PosIn(c, Digits) - 1

RECURSIVE DigitsVal(_)
DigitsVal(s) == IF s = <<>> THEN 0 ELSE 10 * DigitsVal(SliceTo(s, Len(s) - 1)) + DigitVal(s[Len(s)])

HasSign(s) == s # <<>> /\ s[1] \in {"+", "-"}
Unsigned(s) == IF HasSign(s) THEN Tail(s) ELSE s
SignOf(s) == IF s # <<>> /\ s[1] = "-" THEN -1 ELSE 1

\* strconv.Atoi: [ok |-> err == nil, i |-> the int]
Atoi(s) ==
    IF Unsigned(s) # <<>> /\ AllDigits(Unsigned(s))
    THEN [ok |-> TRUE, i |-> SignOf(s) * DigitsVal(Unsigned(s))]
    ELSE [ok |-> FALSE, i |-> 0]

\* m * 10^e with the factors 10 of m moved into e
RECURSIVE Normalize(_, _)
Normalize(m, e) ==
    IF m = 0 THEN [m |-> 0, e |-> 0]
    ELSE IF m % 10 = 0 THEN Normalize(m \div 10, e + 1)
    ELSE [m |-> m, e |-> e]

RECURSIVE NumDigits(_)
NumDigits(n) == IF n < 10 THEN 1 ELSE 1 + NumDigits(n \div 10)
RECURSIVE Pow10(_)
Pow10(n) == IF n = 0 THEN 1 ELSE 10 * Pow10(n - 1)
Abs(n) == IF n < 0 THEN -n ELSE n

\* the float64 nearest to m * 10^e (m of at most 9 digits): a value beyond
\* the largest float64, 1.7976931348623157e308, is a range error, a value
\* below the smallest is 0
roundFloat(m, e) ==
    LET x == e + NumDigits(Abs(m)) - 1
    IN  IF m = 0 \/ x < -324 THEN [ok |-> TRUE, f |-> VFloat("num", 0, 0)]
        ELSE IF x > 308 \/ (x = 308 /\ Abs(m) * Pow10(9 - NumDigits(Abs(m))) > 179769313)
        THEN [ok |-> FALSE, f |-> Nil]
        ELSE [ok |-> TRUE, f |-> VFloat("num", m, e)]

\* strconv.ParseFloat(s, 64): [ok |-> err == nil, f |-> the float64]
ParseFloat(s) ==
    LET body == ToLower(Unsigned(s))
        fail == [ok |-> FALSE, f |-> Nil]
        ePos == Index(body, <<"e">>)
        mant == IF ePos < 0 THEN body ELSE SliceTo(body, ePos)
        expo == IF ePos < 0 THEN <<>> ELSE SliceFrom(body, ePos + 1)
        dot == Index(mant, <<".">>)
        whole == IF dot < 0 THEN mant ELSE SliceTo(mant, dot)
        frac == IF dot < 0 THEN <<>> ELSE SliceFrom(mant, dot + 1)
        mantOk == AllDigits(whole) /\ AllDigits(frac) /\ Len(whole) + Len(frac) >= 1
        expOk == ePos < 0 \/ (Unsigned(expo) # <<>> /\ AllDigits(Unsigned(expo)))
        expVal == IF ePos < 0 THEN 0 ELSE SignOf(expo) * DigitsVal(Unsigned(expo))
        n == Normalize(SignOf(s) * DigitsVal(whole \o frac), expVal - Len(frac))
    IN  IF s = <<>> THEN fail
        ELSE IF body \in {<<"i","n","f">>, <<"i","n","f","i","n","i","t","y">>}
        THEN [ok |-> TRUE, f |-> VFloat(IF SignOf(s) < 0 THEN "-Inf" ELSE "+Inf", 0, 0)]
        ELSE IF ToLower(s) = <<"n","a","n">> THEN [ok |-> TRUE, f |-> VFloat("NaN", 0, 0)]
        ELSE IF mantOk /\ expOk THEN roundFloat(n.m, n.e)
        ELSE fail

-----------------------------------------------------------------------------
(* internal/values: the Loader *)

\* convertValue trying the float before the integer
convertNumberFloatFirst(value, i, f) ==
    IF f.ok THEN f.f
    ELSE IF i.ok THEN VInt(i.i)
    ELSE VStr(value)
\* the integer and float attempts of convertValue, i and f being the results
\* of strconv.Atoi and strconv.ParseFloat
convertNumber(value, i, f) ==
    IF i.ok THEN VInt(i.i)
    ELSE IF f.ok THEN f.f
    ELSE VStr(value)

\* a convertValue that keeps every value a string
convertValueAsString(value) == VStr(value)

\* convertValue attempts to convert string values to appropriate types
convertValue(value) ==
    IF ToLower(value) = <<"t","r","u","e">> THEN VBool(TRUE)
    ELSE IF ToLower(value) = <<"f","a","l","s","e">> THEN VBool(FALSE)
    ELSE convertNumber(value, Atoi(value), ParseFloat(value))

\* the error of setNestedValue: key <path> is not a map
NotAMapError(path) == [kind |-> "not a map", key |-> path]
\* the errors of ParseSetValues
FormatError(pair) == [kind |-> "invalid set value format", pair |-> pair]
NestedError(key, cause) == [kind |-> "error setting nested value", key |-> key, cause |-> cause]

\* the loop of setNestedValue from segment i (1-based) on, current being the
\* map reached so far: [h |-> heap, err |-> error or Nil]
RECURSIVE setNestedFrom(_, _, _, _, _)
setNestedFrom(h, current, keys, i, value) ==
    IF i >= Len(keys)
    THEN \* set the final value
         [h |-> SetKey(h, current, keys[Len(keys)], value), err |-> Nil]
    ELSE LET k == keys[i]
             exists == k \in DOMAIN h[current].m
             newMap == Len(h) + 1
             h1 == IF exists THEN h
                   ELSE SetKey(Append(h, EmptyMap), current, k, VRef(newMap))
             next == h1[current].m[k]
         IN  IF IsMap(h1, next)
             THEN setNestedFrom(h1, next.a, keys, i + 1, value)
             ELSE [h |-> h1, err |-> NotAMapError(Join(SubSeq(keys, 1, i), <<".">>))]

\* setNestedValue taking the dotted key for one flat key
setNestedValueFlat(h, values, key, value) ==
    [h |-> SetKey(h, values, key, value), err |-> Nil]
\* a setNestedValue whose check covers the last segment too: a key that
\* holds a map is not overwritten
setNestedValueCheckingLast(h, values, key, value) ==
  IF key \in DOMAIN h[values].m /\ IsMap(h, h[values].m[key])
  THEN [h |-> h, err |-> NotAMapError(key)]
  ELSE setNestedFrom(h, values, Split(key, <<".">>), 1, value)
\* setNestedValue(values, key, value) on the map at address values
setNestedValue(h, values, key, value) ==
    setNestedFrom(h, values, Split(key, <<".">>), 1, value)

\* the error check after setNestedValue in ParseSetValues
wrapNested(key, r) ==
    IF r.err # Nil THEN [h |-> r.h, err |-> NestedError(key, r.err)] ELSE r

\* one trimmed, non-empty pair, cut at its first '=' into parts
parsePair(h, parsed, pair, parts) ==
    IF Len(parts) # 2 THEN [h |-> h, err |-> FormatError(pair)]
    ELSE wrapNested(TrimSpace(parts[1]),
                    setNestedValue(h, parsed, TrimSpace(parts[1]),
                                   convertValue(TrimSpace(parts[2]))))

\* the inner loop of ParseSetValues over the pairs of one raw string:
\* [h |-> heap, err |-> error or Nil]
RECURSIVE parsePairs(_, _, _)
\* r is the result of the pair before: an error ends the loop
parsePairsNext(r, parsed, rest) ==
    IF r.err # Nil THEN r ELSE parsePairs(r.h, parsed, rest)
\* pair is the trimmed Head of the pairs, rest their Tail
parsePairsFrom(h, parsed, pair, rest) ==
    IF pair = <<>> THEN parsePairs(h, parsed, rest)
    ELSE parsePairsNext(parsePair(h, parsed, pair, SplitN2(pair, <<"=">>)), parsed, rest)
parsePairs(h, parsed, pairs) ==
    IF pairs = <<>> THEN [h |-> h, err |-> Nil]
    ELSE parsePairsFrom(h, parsed, TrimSpace(Head(pairs)), Tail(pairs))

\* the outer loop of ParseSetValues over the raw strings, r being the result
\* of the strings before
RECURSIVE parseStrings(_, _, _)
parseStrings(r, parsed, strs) ==
    IF r.err # Nil \/ strs = <<>> THEN r
    ELSE parseStrings(parsePairs(r.h, parsed, Split(Head(strs), <<",">>)), parsed, Tail(strs))

\* what ParseSetValues returns: nil and the error, or the parsed map
parseResult(r, parsed) ==
    [h |-> r.h, v |-> IF r.err # Nil THEN Nil ELSE VRef(parsed), err |-> r.err]

\* ParseSetValues(setValues): [h, v |-> the parsed map or Nil, err]
ParseSetValues(h, strs) ==
    parseResult(parseStrings([h |-> Append(h, EmptyMap), err |-> Nil], Len(h) + 1, strs),
                Len(h) + 1)

\* result += strings.ToUpper(string(parts[i][0])) + parts[i][1:], for i >= 2
RECURSIVE camelTail(_)
camelTail(parts) ==
    IF parts = <<>> THEN <<>>
    ELSE (IF Len(Head(parts)) > 0
          THEN <<UpperChar(Head(parts)[1])>> \o Tail(Head(parts))
          ELSE <<>>) \o camelTail(Tail(parts))

\* toCamelCase without the lower-casing of the name
toCamelCaseKeepCase(s) ==
    IF s = <<>> THEN s
    ELSE Split(s, <<"_">>)[1] \o camelTail(Tail(Split(s, <<"_">>)))
\* toCamelCase converts UPPER_CASE_WITH_UNDERSCORES to camelCase
toCamelCase(s) ==
    IF s = <<>> THEN s
    ELSE LET parts == Split(ToLower(s), <<"_">>)
         IN  parts[1] \o camelTail(Tail(parts))

\* the loop of LoadEnvValues over os.Environ()
RECURSIVE loadEnvFrom(_, _, _)
\* the loop of LoadEnvValues with the type inference of the overrides applied
loadEnvFromConverting(h, envMap, envs) ==
    IF envs = <<>> THEN h
    ELSE LET env == Head(envs)
             i == Index(env, <<"=">>)
             h1 == IF i < 0 THEN h
                   ELSE SetKey(h, envMap, toCamelCase(SliceTo(env, i)),
                               convertValue(SliceFrom(env, i + 1)))
         IN  loadEnvFrom(h1, envMap, Tail(envs))
\* the loop of LoadEnvValues keeping the first value of a key
loadEnvFromKeepingFirst(h, envMap, envs) ==
  IF envs = <<>> THEN h
  ELSE LET env == Head(envs)
           i == Index(env, <<"=">>)
           h1 == IF i < 0 \/ toCamelCase(SliceTo(env, i)) \in DOMAIN h[envMap].m THEN h
                 ELSE SetKey(h, envMap, toCamelCase(SliceTo(env, i)),
                             VStr(SliceFrom(env, i + 1)))
       IN  loadEnvFrom(h1, envMap, Tail(envs))
loadEnvFrom(h, envMap, envs) ==
    IF envs = <<>> THEN h
    ELSE LET env == Head(envs)
             i == Index(env, <<"=">>)
             h1 == IF i < 0 THEN h
                   ELSE SetKey(h, envMap, toCamelCase(SliceTo(env, i)),
                               VStr(SliceFrom(env, i + 1)))
         IN  loadEnvFrom(h1, envMap, Tail(envs))

\* LoadEnvValues(): [h, v |-> the map]
LoadEnvValues(h, envs) ==
    LET envMap == Len(h) + 1
    IN  [h |-> loadEnvFrom(Append(h, EmptyMap), envMap, envs), v |-> VRef(envMap)]

\* os: a file system maps the clean paths that exist to a directory or to
\* a regular file and its bytes
Directory == [kind |-> "dir"]
RegularFile(content) == [kind |-> "file", content |-> content]

\* *files.PathError{Op, Path, Err}
PathError(op, path, text) == [kind |-> "PathError", Op |-> op, Path |-> path, Err |-> text]
\* fmt.Errorf(text + ": %w", cause)
Errorf(text, cause) == [kind |-> "wrapped", text |-> text, cause |-> cause]

\* path/filepath.Clean
RECURSIVE cleanParts(_, _, _)
cleanParts(parts, rooted, acc) ==
    IF parts = <<>> THEN acc
    ELSE IF Head(parts) = <<>> \/ Head(parts) = <<".">>
    THEN cleanParts(Tail(parts), rooted, acc)
    ELSE IF Head(parts) # <<".",".">> THEN cleanParts(Tail(parts), rooted, Append(acc, Head(parts)))
    ELSE IF acc # <<>> /\ acc[Len(acc)] # <<".",".">>
    THEN cleanParts(Tail(parts), rooted, SubSeq(acc, 1, Len(acc) - 1))
    ELSE IF rooted THEN cleanParts(Tail(parts), rooted, acc)
    ELSE cleanParts(Tail(parts), rooted, Append(acc, Head(parts)))
cleanJoined(rooted, body) ==
    IF rooted THEN <<"/">> \o body ELSE IF body = <<>> THEN <<".">> ELSE body
filepathClean(path) ==
    cleanJoined(path # <<>> /\ path[1] = "/",
                Join(cleanParts(Split(path, <<"/">>), path # <<>> /\ path[1] = "/", <<>>), <<"/">>))

\* the 1-based position of the last separator of path, 0 if it has none
LastSlash(path) ==
    IF \E i \in DOMAIN path : path[i] = "/"
    THEN CHOOSE i \in DOMAIN path : path[i] = "/" /\ \A j \in DOMAIN path : path[j] = "/" => j <= i
    ELSE 0

\* path/filepath.Dir, Base, Join (of two elements)
filepathDir(path) == filepathClean(SliceTo(path, LastSlash(path)))
RECURSIVE filepathBase(_)
filepathBase(path) ==
    IF path = <<>> THEN <<".">>
    ELSE IF path = <<"/">> THEN path
    ELSE IF path[Len(path)] = "/" THEN filepathBase(SliceTo(path, Len(path) - 1))
    ELSE SliceFrom(path, LastSlash(path))
filepathJoin(dir, name) ==
    IF dir = <<>> /\ name = <<>> THEN <<>>
    ELSE IF dir = <<>> THEN filepathClean(name)
    ELSE IF name = <<>> THEN filepathClean(dir)
    ELSE filepathClean(dir \o <<"/">> \o name)

\* os.Stat(name): [info, err]
Stat(files, name) ==
    IF name = <<>> \/ filepathClean(name) \notin DOMAIN files
    THEN [info |-> Nil, err |-> PathError(<<"s","t","a","t">>, name, <<"n","o"," ","s","u","c","h"," ","f","i","l","e"," ","o","r"," ","d","i","r","e","c","t","o","r","y">>)]
    ELSE [info |-> files[filepathClean(name)], err |-> Nil]

\* os.ReadFile(name): [data, err]
ReadFile(files, name) ==
    IF Stat(files, name).err # Nil
    THEN [data |-> <<>>, err |-> PathError(<<"o","p","e","n">>, name, <<"n","o"," ","s","u","c","h"," ","f","i","l","e"," ","o","r"," ","d","i","r","e","c","t","o","r","y">>)]
    ELSE IF Stat(files, name).info.kind = "dir"
    THEN [data |-> <<>>, err |-> PathError(<<"r","e","a","d">>, name, <<"i","s"," ","a"," ","d","i","r","e","c","t","o","r","y">>)]
    ELSE [data |-> Stat(files, name).info.content, err |-> Nil]

\* os.MkdirAll(path, perm): [files, err]; the directories made before a
\* failure stay
RECURSIVE MkdirAll(_, _)
mkdirAfterParent(r, path) ==
    IF r.err # Nil THEN r ELSE [fs |-> (path :> Directory) @@ r.fs, err |-> Nil]
MkdirAll(files, path) ==
    IF path = <<>> THEN [fs |-> files, err |-> PathError(<<"m","k","d","i","r">>, path, <<"n","o"," ","s","u","c","h"," ","f","i","l","e"," ","o","r"," ","d","i","r","e","c","t","o","r","y">>)]
    ELSE IF filepathClean(path) \in DOMAIN files
    THEN [fs |-> files,
          err |-> IF files[filepathClean(path)].kind = "dir" THEN Nil
                  ELSE PathError(<<"m","k","d","i","r">>, path, <<"n","o","t"," ","a"," ","d","i","r","e","c","t","o","r","y">>)]
    ELSE IF filepathDir(filepathClean(path)) = filepathClean(path)
    THEN [fs |-> (filepathClean(path) :> Directory) @@ files, err |-> Nil]
    ELSE mkdirAfterParent(MkdirAll(files, filepathDir(filepathClean(path))), filepathClean(path))

\* os.Create(name): [files, err]; the file is created or truncated
Create(files, name) ==
    IF name = <<>> \/ filepathDir(filepathClean(name)) \notin DOMAIN files
    THEN [fs |-> files, err |-> PathError(<<"o","p","e","n">>, name, <<"n","o"," ","s","u","c","h"," ","f","i","l","e"," ","o","r"," ","d","i","r","e","c","t","o","r","y">>)]
    ELSE IF files[filepathDir(filepathClean(name))].kind # "dir"
    THEN [fs |-> files, err |-> PathError(<<"o","p","e","n">>, name, <<"n","o","t"," ","a"," ","d","i","r","e","c","t","o","r","y">>)]
    ELSE IF filepathClean(name) \in DOMAIN files /\ files[filepathClean(name)].kind = "dir"
    THEN [fs |-> files, err |-> PathError(<<"o","p","e","n">>, name, <<"i","s"," ","a"," ","d","i","r","e","c","t","o","r","y">>)]
    ELSE [fs |-> (filepathClean(name) :> RegularFile(<<>>)) @@ files, err |-> Nil]

\* a WriteString that writes nothing
WriteStringNothing(files, name, s) == files
\* File.WriteString(s) on the file just created at name
WriteString(files, name, s) == (filepathClean(name) :> RegularFile(s)) @@ files

\* yaml.Unmarshal on the documents of the model: the tree yaml.v2 builds
\* (nested mappings are map[interface{}]interface{}, "ymap"); any other
\* text is no mapping and is rejected
DatabaseYaml == <<"d","a","t","a","b","a","s","e",":","\n"," "," ","h","o","s","t",":"," ","l","o","c","a","l","h","o","s","t","\n"," "," ","p","o","r","t",":"," ","5","4","3","2","\n">>
AppYaml == <<"a","p","p",":","\n"," "," ","n","a","m","e",":"," ","t","e","s","t","-","a","p","p","\n"," "," ","v","e","r","s","i","o","n",":"," ","1",".","0",".","0","\n">>
YamlDocuments ==
    (DatabaseYaml :> LMap(<<"d","a","t","a","b","a","s","e">> :> LYMap(<<"h","o","s","t">> :> VStr(<<"l","o","c","a","l","h","o","s","t">>) @@ <<"p","o","r","t">> :> VInt(5432))))
    @@ (AppYaml :> LMap(<<"a","p","p">> :> LYMap(<<"n","a","m","e">> :> VStr(<<"t","e","s","t","-","a","p","p">>) @@ <<"v","e","r","s","i","o","n">> :> VStr(<<"1",".","0",".","0">>))))
    @@ (<<>> :> LMap(<<>>))
Unmarshal(data) ==
    IF data \in DOMAIN YamlDocuments THEN [doc |-> YamlDocuments[data], err |-> Nil]
    ELSE [doc |-> Nil, err |-> [kind |-> "yaml", msg |-> <<"y","a","m","l",":"," ","u","n","m","a","r","s","h","a","l"," ","e","r","r","o","r","s">>]]

\* LoadYAMLValues after yaml.Unmarshal(data, &values) returned r
loadYAMLParsed(h, values, r) ==
    IF r.err # Nil THEN [h |-> h, v |-> Nil, err |-> Errorf(<<"f","a","i","l","e","d"," ","t","o"," ","p","a","r","s","e"," ","Y","A","M","L">>, r.err)]
    ELSE AllocDone(values, AllocSlots(h, r.doc.m, SetToSeq(DOMAIN r.doc.m))) @@ [err |-> Nil]
\* LoadYAMLValues after os.ReadFile(valuesFile) returned r
loadYAMLRead(h, values, r) ==
    IF r.err # Nil THEN [h |-> h, v |-> Nil, err |-> Errorf(<<"f","a","i","l","e","d"," ","t","o"," ","r","e","a","d"," ","v","a","l","u","e","s"," ","f","i","l","e">>, r.err)]
    ELSE loadYAMLParsed(h, values, Unmarshal(r.data))
\* LoadYAMLValues(valuesFile) on file system files: [h, v, err]
LoadYAMLValues(h, files, valuesFile) ==
    IF valuesFile = <<>> THEN [h |-> Append(h, EmptyMap), v |-> VRef(Len(h) + 1), err |-> Nil]
    ELSE loadYAMLRead(Append(h, EmptyMap), Len(h) + 1, ReadFile(files, valuesFile))

-----------------------------------------------------------------------------
(* internal/values: Loader.deepMerge and Loader.MergeValues *)

RECURSIVE deepMerge(_, _, _)
RECURSIVE deepMergeKeys(_, _, _, _)
\* a loop body that keeps a map of dst where src holds no map
deepMergeKeysKeepingTree(h, dst, src, keys) ==
  IF keys = <<>> THEN h
  ELSE LET k == Head(keys)
           v == h[src].m[k]
           dstIsMap == k \in DOMAIN h[dst].m /\ IsMap(h, h[dst].m[k])
           h1 == IF IsMap(h, v)
                 THEN IF dstIsMap
                      THEN deepMerge(h, h[dst].m[k].a, v.a)
                      ELSE LET newMap == Len(h) + 1
                           IN  SetKey(deepMerge(Append(h, EmptyMap), newMap, v.a),
                                      dst, k, VRef(newMap))
                 ELSE IF dstIsMap THEN h ELSE SetKey(h, dst, k, v)
       IN  deepMergeKeys(h1, dst, src, Tail(keys))
\* the body of deepMerge's loop, for the keys of src still to visit
deepMergeKeys(h, dst, src, keys) ==
    IF keys = <<>> THEN h
    ELSE LET k == Head(keys)
             v == h[src].m[k]
             dstIsMap == k \in DOMAIN h[dst].m /\ IsMap(h, h[dst].m[k])
             h1 == IF IsMap(h, v)
                   THEN IF dstIsMap
                        THEN \* both are maps, merge recursively
                             deepMerge(h, h[dst].m[k].a, v.a)
                        ELSE \* destination is not a map, replace it
                             LET newMap == Len(h) + 1
                             IN  SetKey(deepMerge(Append(h, EmptyMap), newMap, v.a),
                                        dst, k, VRef(newMap))
                   ELSE \* not a map, just set the value
                        SetKey(h, dst, k, v)
         IN  deepMergeKeys(h1, dst, src, Tail(keys))

\* deepMerge(dst, src) on the maps at addresses dst and src: the heap after it
deepMerge(h, dst, src) == deepMergeKeys(h, dst, src, SetToSeq(DOMAIN h[src].m))

\* deepMerge(dst, src) where src is a map value that may be the nil map
\* (ranging over a nil map visits nothing)
deepMergeValue(h, dst, src) == IF src.t = "ref" THEN deepMerge(h, dst, src.a) ELSE h

\* MergeValues without the values of the config
MergeValuesNoConfig(h, yamlV, envV, setV, configV) ==
    [h |-> deepMergeValue(deepMergeValue(deepMergeValue(
                Append(h, EmptyMap), Len(h) + 1, yamlV), Len(h) + 1, envV), Len(h) + 1, setV),
     v |-> VRef(Len(h) + 1)]
\* MergeValues with the overrides merged first
MergeValuesSetFirst(h, yamlV, envV, setV, configV) ==
    [h |-> deepMergeValue(deepMergeValue(deepMergeValue(deepMergeValue(
                Append(h, EmptyMap), Len(h) + 1, setV), Len(h) + 1, yamlV),
                Len(h) + 1, envV), Len(h) + 1, configV),
     v |-> VRef(Len(h) + 1)]
\* MergeValues with the environment merged after the overrides
MergeValuesEnvLast(h, yamlV, envV, setV, configV) ==
    LET merged == Len(h) + 1
        h0 == Append(h, EmptyMap)
        h1 == deepMergeValue(h0, merged, yamlV)
        h2 == deepMergeValue(h1, merged, setV)
        h3 == deepMergeValue(h2, merged, envV)
        h4 == deepMergeValue(h3, merged, configV)
    IN  [h |-> h4, v |-> VRef(merged)]
\* a MergeValues that takes the tree of the values file as its accumulator
MergeValuesIntoFile(h, yamlV, envV, setV, configV) ==
  [h |-> deepMergeValue(deepMergeValue(deepMergeValue(h, yamlV.a, envV),
                                       yamlV.a, setV), yamlV.a, configV),
   v |-> yamlV]
\* MergeValues(yamlValues, envValues, setValues, configValues):
\* [h |-> the heap after the call, v |-> the merged map]
MergeValues(h, yamlV, envV, setV, configV) ==
    LET merged == Len(h) + 1
        h0 == Append(h, EmptyMap)
        h1 == deepMergeValue(h0, merged, yamlV)
        h2 == deepMergeValue(h1, merged, envV)
        h3 == deepMergeValue(h2, merged, setV)
        h4 == deepMergeValue(h3, merged, configV)
    IN  [h |-> h4, v |-> VRef(merged)]

-----------------------------------------------------------------------------
(* text/template as internal/template uses it: how a value prints *)

\* the characters of the model in byte order, for sorting keys and names
CharOrder == <<"\t", "\n", "\r", " ", "!", "\"", "'", "(", ")", "+", ",", "-", ".", "/">>
                 \o Digits \o <<":", "<", "=", ">">> \o UpperLetters
                 \o <<"[", "\\", "]", "_">> \o LowerLetters \o <<"{", "|", "}">>

\* a < b as Go compares strings
RECURSIVE StrLess(_, _)
StrLess(a, b) ==
    IF b = <<>> THEN FALSE
    ELSE IF a = <<>> THEN TRUE
    ELSE IF Head(a) = Head(b) THEN StrLess(Tail(a), Tail(b))
    ELSE PosIn(Head(a), CharOrder) < PosIn(Head(b), CharOrder)

\* the strings of a finite set in increasing order
RECURSIVE SortStrings(_)
SortStrings(S) ==
    IF S = {} THEN <<>>
    ELSE LET least == CHOOSE x \in S : \A y \in S \ {x} : StrLess(x, y)
         IN  <<least>> \o SortStrings(S \ {least})

\* strconv.Itoa for n >= 0
RECURSIVE FormatNat(_)
FormatNat(n) == IF n < 10 THEN <<Digits[n + 1]>> ELSE FormatNat(n \div 10) \o <<Digits[(n % 10) + 1]>>
\* strconv.Itoa
FormatInt(n) == IF n < 0 THEN <<"-">> \o FormatNat(-n) ELSE FormatNat(n)

\* n zeros
Zeros(n) == [i \in 1..n |-> "0"]

\* strconv.FormatFloat(f, 'g', -1, 64) as fmt prints a float64 with %v: the
\* shortest digits, with an exponent when it is below -4 or at least 21
FormatFloat(f) ==
    IF f.k = "NaN" THEN <<"N","a","N">>
    ELSE IF f.k = "+Inf" THEN <<"+","I","n","f">>
    ELSE IF f.k = "-Inf" THEN <<"-","I","n","f">>
    ELSE LET ds == FormatNat(Abs(f.m))
             x == f.e + Len(ds) - 1
             sign == IF f.m < 0 THEN <<"-">> ELSE <<>>
             ex == FormatNat(Abs(x))
         IN  sign \o
             (IF f.m = 0 THEN <<"0">>
              ELSE IF x < -4 \/ x >= 21
              THEN <<Head(ds)>> \o (IF Len(ds) > 1 THEN <<".">> \o Tail(ds) ELSE <<>>)
                     \o <<"e", IF x < 0 THEN "-" ELSE "+">>
                     \o (IF Len(ex) < 2 THEN <<"0">> ELSE <<>>) \o ex
              ELSE IF f.e >= 0 THEN ds \o Zeros(f.e)
              ELSE IF Len(ds) > -f.e
              THEN SliceTo(ds, Len(ds) + f.e) \o <<".">> \o SliceFrom(ds, Len(ds) + f.e)
              ELSE <<"0", ".">> \o Zeros(-f.e - Len(ds)) \o ds)

\* fmt.Sprint of a value held in a map or slice (%v)
RECURSIVE FormatValue(_, _)
\* the elements of a container, each printed by item, joined by blanks
RECURSIVE FormatItems(_, _, _)
FormatItems(h, c, keys) ==
    IF keys = <<>> THEN <<>>
    ELSE (IF c.kind = "slice" THEN <<>> ELSE Head(keys) \o <<":">>)
             \o FormatValue(h, c.m[Head(keys)])
             \o (IF Len(keys) > 1 THEN <<" ">> ELSE <<>>)
             \o FormatItems(h, c, Tail(keys))
FormatValue(h, v) ==
    IF v.t = "nil" THEN <<"<","n","i","l",">">>
    ELSE IF v.t = "string" THEN v.s
    ELSE IF v.t = "bool" THEN (IF v.b THEN <<"t","r","u","e">> ELSE <<"f","a","l","s","e">>)
    ELSE IF v.t = "int" THEN FormatInt(v.i)
    ELSE IF v.t = "float" THEN FormatFloat(v)
    ELSE IF h[v.a].kind = "slice"
    THEN <<"[">> \o FormatItems(h, h[v.a], [i \in 1..Len(h[v.a].m) |-> i]) \o <<"]">>
    ELSE <<"m","a","p","[">> \o FormatItems(h, h[v.a], SortStrings(DOMAIN h[v.a].m)) \o <<"]">>

\* the value of a lookup that found nothing (the zero reflect.Value)
Invalid == [t |-> "invalid"]

\* what an action prints for its value: printValue of text/template
printValue(h, v) ==
    IF v.t \in {"invalid", "nil"} THEN <<"<","n","o"," ","v","a","l","u","e",">">>
    ELSE FormatValue(h, v)

\* the %s of the reflect.Type of a value
TypeName(h, v) ==
    IF v.t = "string" THEN <<"s","t","r","i","n","g">>
    ELSE IF v.t = "bool" THEN <<"b","o","o","l">>
    ELSE IF v.t = "int" THEN <<"i","n","t">>
    ELSE IF v.t = "float" THEN <<"f","l","o","a","t","6","4">>
    ELSE IF h[v.a].kind = "slice" THEN <<"[","]","i","n","t","e","r","f","a","c","e"," ","{","}">>
    ELSE IF h[v.a].kind = "ymap"
    THEN <<"m","a","p","[","i","n","t","e","r","f","a","c","e"," ","{","}","]","i","n","t","e","r","f","a","c","e"," ","{","}">>
    ELSE <<"m","a","p","[","s","t","r","i","n","g","]","i","n","t","e","r","f","a","c","e"," ","{","}">>
-----------------------------------------------------------------------------
(* text/template/parse, for the template forms of the model: text, and      *)
(* actions {{ pipeline }} whose commands are made of fields (.a.b), the dot, *)
(* quoted strings without escapes, and calls of the functions below.        *)

\* the functions of GetTemplateFuncs() the model can call
TemplateFuncs == {<<"u","p","p","e","r">>, <<"d","e","f","a","u","l","t">>, <<"f","a","i","l">>}

IsAlphaNumeric(c) ==
    c = "_" \/ c \in Range(LowerLetters) \/ c \in Range(UpperLetters) \/ IsDigit(c)
IsIdentifier(s) == s # <<>> /\ \A i \in DOMAIN s : IsAlphaNumeric(s[i])

\* the length of the word s starts with: up to a blank, a '|' or a '"'
RECURSIVE WordLen(_)
WordLen(s) == IF s = <<>> \/ Head(s) \in {" ", "|", "\""} THEN 0 ELSE 1 + WordLen(Tail(s))

\* a word of an action as an operand
operandOf(word, pos) ==
    IF word = <<".">> THEN [o |-> "dot", pos |-> pos, src |-> word]
    ELSE IF Head(word) = "." /\ \A f \in Range(Split(Tail(word), <<".">>)) : IsIdentifier(f)
    THEN \* a chain of fields is placed at its second field
         [o |-> "field", chain |-> Split(Tail(word), <<".">>), src |-> word,
          pos |-> IF Len(Split(Tail(word), <<".">>)) = 1 THEN pos
                  ELSE pos + 1 + Len(Split(Tail(word), <<".">>)[1])]
    ELSE IF word \in TemplateFuncs THEN [o |-> "func", name |-> word, pos |-> pos, src |-> word]
    ELSE IF IsIdentifier(word)
    THEN [o |-> "error", pos |-> pos,
          msg |-> <<"f","u","n","c","t","i","o","n"," ">> \o <<"\"">> \o word \o <<"\"">> \o <<" ","n","o","t"," ","d","e","f","i","n","e","d">>]
    ELSE [o |-> "error", pos |-> pos, msg |-> <<"u","n","e","x","p","e","c","t","e","d"," ">> \o <<"\"">> \o word \o <<"\"">> \o <<" ","i","n"," ","c","o","m","m","a","n","d">>]

\* the operands and pipes of the inside of an action, s being what is left of
\* it and pos its offset in the template
RECURSIVE lexAction(_, _)
lexString(s, pos, close) ==
    IF close < 0 THEN <<[o |-> "error", pos |-> pos, msg |-> <<"u","n","t","e","r","m","i","n","a","t","e","d"," ","q","u","o","t","e","d"," ","s","t","r","i","n","g">>]>>
    ELSE <<[o |-> "string", s |-> SliceTo(Tail(s), close), pos |-> pos,
            src |-> SliceTo(s, close + 2)]>>
             \o lexAction(SliceFrom(s, close + 2), pos + close + 2)
lexWord(s, pos, n) == <<operandOf(SliceTo(s, n), pos)>> \o lexAction(SliceFrom(s, n), pos + n)
lexAction(s, pos) ==
    IF s = <<>> THEN <<>>
    ELSE IF Head(s) = " " THEN lexAction(Tail(s), pos + 1)
    ELSE IF Head(s) = "|" THEN <<[o |-> "pipe", pos |-> pos]>> \o lexAction(Tail(s), pos + 1)
    ELSE IF Head(s) = "\"" THEN lexString(s, pos, Index(Tail(s), <<"\"">>))
    ELSE lexWord(s, pos, WordLen(s))

\* CommandNode.String(): the operands joined by blanks
RECURSIVE commandSource(_)
commandSource(args) ==
    IF args = <<>> THEN <<>>
    ELSE args[1].src \o (IF Len(args) > 1 THEN <<" ">> ELSE <<>>) \o commandSource(Tail(args))

\* the commands of a pipeline: the operands between the pipes
RECURSIVE commandsOf(_, _)
commandsOf(toks, args) ==
    IF toks = <<>> \/ Head(toks).o = "pipe"
    THEN <<[args |-> args, src |-> commandSource(args),
            pos |-> IF args = <<>> THEN 0 ELSE args[1].pos]>>
             \o (IF toks = <<>> THEN <<>> ELSE commandsOf(Tail(toks), <<>>))
    ELSE commandsOf(Tail(toks), Append(args, Head(toks)))

\* the first error among the operands, else the pipeline's own
pipelineError(toks, cmds) ==
    IF \E i \in DOMAIN toks : toks[i].o = "error"
    THEN toks[CHOOSE i \in DOMAIN toks : toks[i].o = "error"
                                           /\ \A j \in 1..(i - 1) : toks[j].o # "error"].msg
    ELSE IF \E i \in DOMAIN cmds : cmds[i].args = <<>> THEN <<"m","i","s","s","i","n","g"," ","v","a","l","u","e"," ","f","o","r"," ","c","o","m","m","a","n","d">>
    ELSE IF \E i \in 2..Len(cmds) : cmds[i].args[1].o # "func"
    THEN <<"n","o","n"," ","e","x","e","c","u","t","a","b","l","e"," ","c","o","m","m","a","n","d"," ","i","n"," ","p","i","p","e","l","i","n","e"," ","s","t","a","g","e"," ","2">>
    ELSE Nil

\* the node of an action, or of the error in it
actionNode(pos, cmds, error) ==
    IF error # Nil THEN [n |-> "error", pos |-> pos, msg |-> error]
    ELSE [n |-> "action", pos |-> pos, cmds |-> cmds]
actionOf(pos, toks, cmds) == actionNode(pos, cmds, pipelineError(toks, cmds))
parseAction(body, pos) == actionOf(pos, lexAction(body, pos), commandsOf(lexAction(body, pos), <<>>))

\* the nodes of the template text from offset from on
RECURSIVE parseNodes(_, _)
parseText(text, from, i) ==
    IF i = 0 THEN <<>> ELSE <<[n |-> "text", s |-> SubSeq(text, from + 1, from + i)]>>
parseFrom(text, from, open, close) ==
    IF open < 0 THEN parseText(text, from, Len(text) - from)
    ELSE IF close < 0
    THEN parseText(text, from, open)
             \o <<[n |-> "error", pos |-> from + open, msg |-> <<"u","n","c","l","o","s","e","d"," ","a","c","t","i","o","n">>]>>
    ELSE parseText(text, from, open)
             \o <<parseAction(SubSeq(text, from + open + 3, from + open + 2 + close),
                              from + open + 2)>>
             \o parseNodes(text, from + open + 2 + close + 2)
parseNodes(text, from) ==
    parseFrom(text, from, Index(SliceFrom(text, from), <<"{","{">>),
              IF Index(SliceFrom(text, from), <<"{","{">>) < 0 THEN -1
              ELSE Index(SliceFrom(text, from + Index(SliceFrom(text, from), <<"{","{">>) + 2), <<"}","}">>))

\* the number of newlines in s
RECURSIVE CountNewlines(_)
CountNewlines(s) ==
    IF s = <<>> THEN 0 ELSE (IF Head(s) = "\n" THEN 1 ELSE 0) + CountNewlines(Tail(s))

\* Tree.ErrorContext: the line and the byte in the line of offset pos
lineOf(text, pos) == 1 + CountNewlines(SliceTo(text, pos))
columnOf(text, pos) ==
    LET nl == {i \in 1..pos : text[i] = "\n"}
    IN  IF nl = {} THEN pos ELSE pos - (CHOOSE i \in nl : \A j \in nl : j <= i)

\* the error of Template.Parse
ParseError(name, line, msg) ==
    [kind |-> "parse", msg |-> <<"t","e","m","p","l","a","t","e",":"," ">> \o name \o <<":">> \o FormatNat(line) \o <<":"," ">> \o msg]

\* Template.Parse(text) on the template called name: the tree, or the error
parsedTree(name, text, nodes) ==
    IF \E i \in DOMAIN nodes : nodes[i].n = "error"
    THEN LET bad == nodes[CHOOSE i \in DOMAIN nodes :
                              nodes[i].n = "error" /\ \A j \in 1..(i - 1) : nodes[j].n # "error"]
         IN  [tree |-> Nil, err |-> ParseError(name, lineOf(text, bad.pos), bad.msg)]
    ELSE [tree |-> [text |-> text, nodes |-> nodes], err |-> Nil]
Parse(name, text) == parsedTree(name, text, parseNodes(text, 0))
-----------------------------------------------------------------------------
(* text/template: execution.  An evaluation gives [v |-> the value, e |->   *)
(* Nil or the error [at |-> the node it is reported at, msg |-> its text]]. *)

Value(v) == [v |-> v, e |-> Nil]
Failure(at, msg) == [v |-> Invalid, e |-> [at |-> at, msg |-> msg]]

\* strconv.Quote on the characters of the model (%q)
RECURSIVE QuoteChars(_)
QuoteChars(s) ==
    IF s = <<>> THEN <<>>
    ELSE (IF Head(s) \in {"\"", "\\"} THEN <<"\\", Head(s)>>
          ELSE IF Head(s) = "\n" THEN <<"\\", "n">>
          ELSE IF Head(s) = "\t" THEN <<"\\", "t">>
          ELSE IF Head(s) = "\r" THEN <<"\\", "r">>
          ELSE <<Head(s)>>) \o QuoteChars(Tail(s))
Quote(s) == <<"\"">> \o QuoteChars(s) \o <<"\"">>

\* state.evalField: the field called name of receiver recv; strict is the
\* option missingkey=error, hasArgs says that the field is given arguments
evalField(h, strict, recv, name, hasArgs, at) ==
    IF recv.t = "invalid"
    THEN IF strict THEN Failure(at, <<"n","i","l"," ","d","a","t","a",";"," ","n","o"," ","e","n","t","r","y"," ","f","o","r"," ","k","e","y"," ">> \o Quote(name))
         ELSE Value(Invalid)
    ELSE IF recv.t = "nil"
    THEN Failure(at, <<"n","i","l"," ","p","o","i","n","t","e","r"," ","e","v","a","l","u","a","t","i","n","g"," ","i","n","t","e","r","f","a","c","e"," ","{","}",".">> \o name)
    ELSE IF recv.t = "ref" /\ h[recv.a].kind \in {"map", "ymap"}
    THEN IF hasArgs THEN Failure(at, name \o <<" ","i","s"," ","n","o","t"," ","a"," ","m","e","t","h","o","d"," ","b","u","t"," ","h","a","s"," ","a","r","g","u","m","e","n","t","s">>)
         ELSE IF name \in DOMAIN h[recv.a].m THEN Value(h[recv.a].m[name])
         ELSE IF strict THEN Failure(at, <<"m","a","p"," ","h","a","s"," ","n","o"," ","e","n","t","r","y"," ","f","o","r"," ","k","e","y"," ">> \o Quote(name))
         ELSE Value(Invalid)
    ELSE Failure(at, <<"c","a","n","'","t"," ","e","v","a","l","u","a","t","e"," ","f","i","e","l","d"," ">> \o name \o <<" ","i","n"," ","t","y","p","e"," ">> \o TypeName(h, recv))

\* state.evalFieldChain: the fields of chain one after the other, r being
\* the evaluation of the receiver
RECURSIVE evalFieldChain(_, _, _, _, _, _)
evalFieldChain(h, strict, r, chain, hasArgs, at) ==
    IF r.e # Nil \/ chain = <<>> THEN r
    ELSE evalFieldChain(h, strict,
                        evalField(h, strict, r.v, Head(chain), hasArgs /\ Len(chain) = 1, at),
                        Tail(chain), hasArgs, at)

\* sprig's empty
Empty(h, v) ==
    \/ v.t \in {"invalid", "nil"}
    \/ v.t = "string" /\ v.s = <<>>
    \/ v.t = "bool" /\ ~v.b
    \/ v.t = "int" /\ v.i = 0
    \/ v.t = "float" /\ v.k = "num" /\ v.m = 0
    \/ v.t = "ref" /\ DOMAIN h[v.a].m = {}

\* state.validateType for a parameter of type string
wrongString(h, v, at) ==
    IF v.t = "invalid" THEN Failure(at, <<"i","n","v","a","l","i","d"," ","v","a","l","u","e",";"," ","e","x","p","e","c","t","e","d"," ","s","t","r","i","n","g">>)
    ELSE Failure(at, <<"w","r","o","n","g"," ","t","y","p","e"," ","f","o","r"," ","v","a","l","u","e",";"," ","e","x","p","e","c","t","e","d"," ","s","t","r","i","n","g",";"," ","g","o","t"," ">>
                        \o (IF v.t = "nil" THEN <<"i","n","t","e","r","f","a","c","e"," ","{","}">> ELSE TypeName(h, v)))

\* state.evalCall: function name called with the values argv; cmd is the
\* command of the call, at the node the evaluation is at
evalCall(h, name, argv, cmd, at) ==
    IF name = <<"u","p","p","e","r">>
    THEN IF Len(argv) # 1
         THEN Failure(at, <<"w","r","o","n","g"," ","n","u","m","b","e","r"," ","o","f"," ","a","r","g","s"," ","f","o","r"," ","u","p","p","e","r",":"," ","w","a","n","t"," ","1"," ","g","o","t"," ">> \o FormatNat(Len(argv)))
         ELSE IF argv[1].t # "string" THEN wrongString(h, argv[1], at)
         ELSE Value(VStr(ToUpper(argv[1].s)))
    ELSE IF name = <<"f","a","i","l">>
    THEN IF Len(argv) # 1
         THEN Failure(at, <<"w","r","o","n","g"," ","n","u","m","b","e","r"," ","o","f"," ","a","r","g","s"," ","f","o","r"," ","f","a","i","l",":"," ","w","a","n","t"," ","1"," ","g","o","t"," ">> \o FormatNat(Len(argv)))
         ELSE IF argv[1].t # "string" THEN wrongString(h, argv[1], at)
         ELSE Failure(cmd, <<"e","r","r","o","r"," ","c","a","l","l","i","n","g"," ","f","a","i","l",":"," ">> \o argv[1].s)
    ELSE \* default
         IF Len(argv) < 1
         THEN Failure(at, <<"w","r","o","n","g"," ","n","u","m","b","e","r"," ","o","f"," ","a","r","g","s"," ","f","o","r"," ","d","e","f","a","u","l","t",":"," ","w","a","n","t"," ","a","t"," ","l","e","a","s","t"," ","1"," ","g","o","t"," ","0">>)
         ELSE IF Len(argv) = 1 \/ Empty(h, argv[2]) THEN Value(argv[1])
         ELSE Value(IF argv[2].t = "invalid" THEN Nil ELSE argv[2])

\* state.evalArg: an operand as the argument of a call
evalArg(h, strict, dot, arg) ==
    IF arg.o = "field" THEN evalFieldChain(h, strict, Value(dot), arg.chain, FALSE, arg)
    ELSE IF arg.o = "dot" THEN Value(dot)
    ELSE IF arg.o = "string" THEN Value(VStr(arg.s))
    ELSE evalCall(h, arg.name, <<>>, arg, arg)

\* the arguments of a call, in order: [argv, e, at], argv holding the
\* values so far and at the node evaluated last
RECURSIVE evalArgs(_, _, _, _, _)
evalArgsNext(h, strict, dot, args, acc, r) ==
    IF r.e # Nil THEN [argv |-> acc.argv, e |-> r.e, at |-> acc.at]
    ELSE evalArgs(h, strict, dot, Tail(args), [argv |-> Append(acc.argv, r.v), e |-> Nil, at |-> Head(args)])
evalArgs(h, strict, dot, args, acc) ==
    IF args = <<>> THEN acc
    ELSE evalArgsNext(h, strict, dot, args, acc, evalArg(h, strict, dot, Head(args)))

\* the value of the command before in the pipeline, when there is none
Missing == [t |-> "missing"]

\* the call of a function with its evaluated arguments a and the value final
\* of the command before
callWith(h, cmd, a, final) ==
    IF a.e # Nil THEN [v |-> Invalid, e |-> a.e]
    ELSE evalCall(h, cmd.args[1].name,
                  IF final = Missing THEN a.argv ELSE Append(a.argv, final), cmd, a.at)

\* state.evalCommand
evalCommand(h, strict, dot, cmd, final) ==
    IF cmd.args[1].o = "func"
    THEN callWith(h, cmd,
                  evalArgs(h, strict, dot, Tail(cmd.args),
                           [argv |-> <<>>, e |-> Nil, at |-> cmd.args[1]]),
                  final)
    ELSE IF cmd.args[1].o = "field"
    THEN evalFieldChain(h, strict, Value(dot), cmd.args[1].chain,
                        Len(cmd.args) > 1 \/ final # Missing, cmd.args[1])
    ELSE IF Len(cmd.args) > 1 \/ final # Missing
    THEN Failure(cmd.args[1], <<"c","a","n","'","t"," ","g","i","v","e"," ","a","r","g","u","m","e","n","t"," ","t","o"," ","n","o","n","-","f","u","n","c","t","i","o","n"," ">> \o cmd.args[1].src)
    ELSE IF cmd.args[1].o = "dot" THEN Value(dot)
    ELSE Value(VStr(cmd.args[1].s))

\* state.evalPipeline: the commands one after the other, r being the
\* evaluation of the commands before
RECURSIVE evalPipeline(_, _, _, _, _)
evalPipeline(h, strict, dot, cmds, r) ==
    IF r.e # Nil \/ cmds = <<>> THEN r
    ELSE evalPipeline(h, strict, dot, Tail(cmds), evalCommand(h, strict, dot, Head(cmds), r.v))

\* state.errorf: the text of the ExecError for an error at a node
execError(name, text, e) ==
    [kind |-> "exec",
     msg |-> <<"t","e","m","p","l","a","t","e",":"," ">> \o name \o <<":">> \o FormatNat(lineOf(text, e.at.pos)) \o <<":">>
               \o FormatNat(columnOf(text, e.at.pos)) \o <<":"," ","e","x","e","c","u","t","i","n","g"," ">> \o Quote(name)
               \o <<" ","a","t"," ","<">>
               \o e.at.src
               \o <<">",":"," ">> \o e.msg]

\* state.walk over the nodes: [out |-> the text written, err |-> Nil or the
\* error that ended the execution]
RECURSIVE walk(_, _, _, _, _, _)
walkAction(h, strict, dot, name, tree, nodes, written, r) ==
    IF r.e # Nil THEN [out |-> written, err |-> execError(name, tree.text, r.e)]
    ELSE walk(h, strict, dot, name, [tree EXCEPT !.nodes = Tail(nodes)],
              written \o printValue(h, r.v))
walk(h, strict, dot, name, tree, written) ==
    IF tree.nodes = <<>> THEN [out |-> written, err |-> Nil]
    ELSE IF Head(tree.nodes).n = "text"
    THEN walk(h, strict, dot, name, [tree EXCEPT !.nodes = Tail(tree.nodes)],
              written \o Head(tree.nodes).s)
    ELSE walkAction(h, strict, dot, name, tree, tree.nodes, written,
                    evalPipeline(h, strict, dot, Head(tree.nodes).cmds, Value(Missing)))

\* Template.Execute(wr, data) of the template called name
Execute(h, strict, name, tree, data) == walk(h, strict, data, name, tree, <<>>)
-----------------------------------------------------------------------------
(* internal/template: the strict-mode wrapper *)

\* &StrictModeError{Variable, Template}
StrictModeError(variable, template) ==
    [kind |-> "StrictModeError", Variable |-> variable, Template |-> template]

\* NewStrictTemplate without the missingkey=error option
NewStrictTemplateNoOption(name, strictMode) ==
    [name |-> name, missingkey |-> "default", StrictMode |-> strictMode, tree |-> Nil]

\* NewStrictTemplate with the condition of the option inverted
NewStrictTemplateInverted(name, strictMode) ==
  [name |-> name, missingkey |-> IF strictMode THEN "default" ELSE "error",
   StrictMode |-> strictMode, tree |-> Nil]
\* NewStrictTemplate(name, strictMode): the wrapped template has the name,
\* the option missingkey and, once parsed, a tree
NewStrictTemplate(name, strictMode) ==
    [name |-> name, missingkey |-> IF strictMode THEN "error" ELSE "default",
     StrictMode |-> strictMode, tree |-> Nil]

\* what ParseTemplate returns for the result r of Template.Parse
parseTemplateResult(st, r) ==
    IF r.err # Nil THEN [st |-> Nil, err |-> r.err]
    ELSE [st |-> [st EXCEPT !.tree = r.tree], err |-> Nil]

\* st.ParseTemplate(content)
ParseTemplate(st, content) == parseTemplateResult(st, Parse(st.name, content))

\* extractVariableFromError attempts to extract the variable name from a
\* template error message
extractVariableFromError(errMsg) ==
    LET keyParts == Split(errMsg, <<"k","e","y"," ">> \o <<"\"">>)
        fieldParts == Split(errMsg, <<"f","i","e","l","d"," ">>)
    IN  IF /\ Contains(errMsg, <<"m","a","p"," ","h","a","s"," ","n","o"," ","e","n","t","r","y"," ","f","o","r"," ","k","e","y">>)
           /\ Len(keyParts) > 1
           /\ Index(keyParts[2], <<"\"">>) > 0
        THEN SliceTo(keyParts[2], Index(keyParts[2], <<"\"">>))
        ELSE IF Contains(errMsg, <<"c","a","n","'","t"," ","e","v","a","l","u","a","t","e"," ","f","i","e","l","d">>) /\ Len(fieldParts) > 1
        THEN Split(fieldParts[2], <<" ">>)[1]
        ELSE <<"u","n","k","n","o","w","n">>

\* an ExecuteTemplate that returns the text written before the error
executeTemplateResultPartial(st, r) ==
  IF r.err = Nil THEN [result |-> r.out, err |-> Nil]
  ELSE IF /\ st.StrictMode
          /\ \/ Contains(r.err.msg, <<"m","a","p"," ","h","a","s"," ","n","o"," ","e","n","t","r","y"," ","f","o","r"," ","k","e","y">>)
             \/ Contains(r.err.msg, <<"c","a","n","'","t"," ","e","v","a","l","u","a","t","e"," ","f","i","e","l","d">>)
  THEN [result |-> r.out,
        err |-> StrictModeError(extractVariableFromError(r.err.msg), st.name)]
  ELSE [result |-> r.out, err |-> r.err]
\* what ExecuteTemplate returns for the result r of Template.Execute
executeTemplateResult(st, r) ==
    IF r.err = Nil THEN [result |-> r.out, err |-> Nil]
    ELSE IF /\ st.StrictMode
            /\ \/ Contains(r.err.msg, <<"m","a","p"," ","h","a","s"," ","n","o"," ","e","n","t","r","y"," ","f","o","r"," ","k","e","y">>)
               \/ Contains(r.err.msg, <<"c","a","n","'","t"," ","e","v","a","l","u","a","t","e"," ","f","i","e","l","d">>)
    THEN [result |-> <<>>,
          err |-> StrictModeError(extractVariableFromError(r.err.msg), st.name)]
    ELSE [result |-> <<>>, err |-> r.err]

\* st.ExecuteTemplate(data)
ExecuteTemplate(h, st, data) ==
    executeTemplateResult(st, Execute(h, st.missingkey = "error", st.name, st.tree, data))
-----------------------------------------------------------------------------
(* internal/processor: TemplateProcessor *)

\* templatepkg.File{SourcePath, RelativePath, OutputPath}
File(source, relative, output) ==
    [SourcePath |-> source, RelativePath |-> relative, OutputPath |-> output]

\* StrictModeError.Error()
StrictModeErrorText(e) ==
    <<"u","n","d","e","f","i","n","e","d"," ","v","a","r","i","a","b","l","e"," ","'">> \o e.Variable \o <<"'"," ","i","n"," ","t","e","m","p","l","a","t","e"," ","'">> \o e.Template
        \o <<"'"," ","(","s","t","r","i","c","t"," ","m","o","d","e"," ","e","n","a","b","l","e","d",")">>
\* fmt.Errorf(text + ": %s", detail): the cause is not wrapped
ErrorfText(text, detail) == [kind |-> "errorString", msg |-> text \o <<":"," ">> \o detail]

\* err.Error(): the text of an error, a wrapped one with the text of its cause
RECURSIVE ErrorMessage(_)
ErrorMessage(e) ==
    IF e.kind = "wrapped" THEN e.text \o <<":"," ">> \o ErrorMessage(e.cause)
    ELSE IF e.kind = "PathError" THEN e.Op \o <<" ">> \o e.Path \o <<":"," ">> \o e.Err
    ELSE IF e.kind = "StrictModeError" THEN StrictModeErrorText(e)
    ELSE IF e.kind = "invalid set value format"
    THEN <<"i","n","v","a","l","i","d"," ","s","e","t"," ","v","a","l","u","e"," ","f","o","r","m","a","t",":"," ">> \o e.pair \o <<" ","(","e","x","p","e","c","t","e","d"," ","k","e","y","=","v","a","l","u","e",")">>
    ELSE IF e.kind = "error setting nested value"
    THEN <<"e","r","r","o","r"," ","s","e","t","t","i","n","g"," ","n","e","s","t","e","d"," ","v","a","l","u","e"," ","f","o","r"," ","k","e","y"," ">> \o e.key \o <<":"," ">> \o ErrorMessage(e.cause)
    ELSE IF e.kind = "not a map"
    THEN <<"k","e","y"," ">> \o e.key \o <<" ","i","s"," ","n","o","t"," ","a"," ","m","a","p",","," ","c","a","n","n","o","t"," ","s","e","t"," ","n","e","s","t","e","d"," ","v","a","l","u","e">>
    ELSE e.msg

\* processTemplatePath after ExecuteTemplate returned r
pathExecuted(pathTemplate, r) ==
    IF r.err = Nil THEN [result |-> r.result, err |-> Nil]
    ELSE IF r.err.kind = "StrictModeError"
    THEN [result |-> <<>>,
          err |-> ErrorfText(<<"s","t","r","i","c","t"," ","m","o","d","e"," ","e","r","r","o","r"," ","i","n"," ","p","a","t","h"," ","t","e","m","p","l","a","t","e"," ","'">> \o pathTemplate \o <<"'">>,
                             StrictModeErrorText(r.err))]
    ELSE [result |-> <<>>,
          err |-> Errorf(<<"f","a","i","l","e","d"," ","t","o"," ","e","x","e","c","u","t","e"," ","p","a","t","h"," ","t","e","m","p","l","a","t","e"," ","'">> \o pathTemplate \o <<"'">>, r.err)]
\* processTemplatePath after ParseTemplate returned r
pathParsed(h, pathTemplate, allV, r) ==
    IF r.err # Nil
    THEN [result |-> <<>>,
          err |-> Errorf(<<"f","a","i","l","e","d"," ","t","o"," ","p","a","r","s","e"," ","p","a","t","h"," ","t","e","m","p","l","a","t","e"," ","'">> \o pathTemplate \o <<"'">>, r.err)]
    ELSE pathExecuted(pathTemplate, ExecuteTemplate(h, r.st, allV))
\* a processTemplatePath that renders every path in lenient mode
processTemplatePathLenient(h, strictMode, pathTemplate, allV) ==
    pathParsed(h, pathTemplate, allV,
               ParseTemplate(NewStrictTemplate(<<"p","a","t","h">>, FALSE), pathTemplate))
\* processTemplatePath(pathTemplate, allValues): [result, err]
processTemplatePath(h, strictMode, pathTemplate, allV) ==
    pathParsed(h, pathTemplate, allV,
               ParseTemplate(NewStrictTemplate(<<"p","a","t","h">>, strictMode), pathTemplate))

\* filepath.Walk(root, fn): the paths fn is called with, in order (a
\* directory, then its entries by name, each followed by its own)
RECURSIVE walkFrom(_, _)
RECURSIVE walkEach(_, _)
walkEach(files, paths) ==
    IF paths = <<>> THEN <<>>
    ELSE walkFrom(files, Head(paths)) \o walkEach(files, Tail(paths))
walkFrom(files, path) ==
    IF files[path].kind # "dir" THEN <<path>>
    ELSE <<path>> \o walkEach(files, SortStrings({p \in DOMAIN files :
                                     p # path /\ filepathDir(p) = path}))
Walk(files, root) == walkFrom(files, filepathClean(root))

\* filepath.Rel(basepath, targpath) for a path Walk found below basepath
filepathRel(basepath, targpath) ==
    IF targpath = filepathClean(basepath) THEN <<".">>
    ELSE IF filepathClean(basepath) = <<".">> THEN targpath
    ELSE SliceFrom(targpath, Len(filepathClean(basepath)) + 1)

\* the function findTemplateFiles gives to filepath.Walk, called for the
\* paths in turn until it returns an error: [files, err]
RECURSIVE findFrom(_, _, _, _, _, _)
findVisited(h, files, cfg, allV, paths, found, r) ==
    IF r.err # Nil
    THEN [files |-> <<>>,
          err |-> Errorf(<<"e","r","r","o","r"," ","w","a","l","k","i","n","g"," ","t","e","m","p","l","a","t","e"," ","d","i","r","e","c","t","o","r","y">>,
                         Errorf(<<"f","a","i","l","e","d"," ","t","o"," ","p","r","o","c","e","s","s"," ","p","a","t","h"," ","t","e","m","p","l","a","t","e"," ","'">>
                                    \o filepathRel(cfg.TemplateFile, Head(paths)) \o <<"'">>,
                                r.err))]
    ELSE findFrom(h, files, cfg, allV, Tail(paths),
                  Append(found, File(Head(paths),
                                     filepathRel(cfg.TemplateFile, Head(paths)),
                                     filepathJoin(cfg.OutputFile, TrimSuffix(r.result, <<".","t","p","l">>)))))
findFrom(h, files, cfg, allV, paths, found) ==
    IF paths = <<>> THEN [files |-> found, err |-> Nil]
    ELSE IF files[Head(paths)].kind = "dir"
            \/ ~HasSuffix(ToLower(filepathBase(Head(paths))), <<".","t","p","l">>)
    THEN findFrom(h, files, cfg, allV, Tail(paths), found)
    ELSE findVisited(h, files, cfg, allV, paths, found,
                     processTemplatePath(h, cfg.StrictMode,
                                         filepathRel(cfg.TemplateFile, Head(paths)), allV))

\* findTemplateFiles(templateDir, outputDir, allValues): [files, err]
findTemplateFiles(h, files, cfg, allV) ==
    findFrom(h, files, cfg, allV, Walk(files, cfg.TemplateFile), <<>>)

-----------------------------------------------------------------------------
(* The value trees the merge is checked on *)

\* nesting depth of the generated trees
MaxDepth == 2

KA == <<"a">>
KB == <<"b">>
MergeKeys == {KA, KB}

\* all maps from a subset of keys into vals
PartialMaps(keys, vals) == UNION {[D -> vals] : D \in SUBSET keys}

\* the trees of depth <= d over the keys a and b: b holds a leaf, a holds a
\* leaf or a subtree of one of the kinds in nested
RECURSIVE TreeSlots(_, _, _)
TreeSlots(leaves, nested, d) ==
    LET sub == IF d <= 1 THEN {}
               ELSE {[t |-> kd, m |-> m] :
                        kd \in nested, m \in TreeSlots(leaves, nested, d - 1)}
    IN  {m \in PartialMaps(MergeKeys, leaves \cup sub) :
            KB \in DOMAIN m => m[KB] \in leaves}

\* leaves that tell the four sources apart
LeafY == VStr(<<"y">>)
LeafE == VStr(<<"e">>)
LeafS == VStr(<<"s">>)
LeafC == VStr(<<"c">>)

\* what yaml.v2 builds for a document: a map[string]any whose nested mappings
\* are map[interface{}]interface{}
YamlTrees == {LMap(m) : m \in TreeSlots({LeafY}, {"ymap"}, MaxDepth)}
\* what LoadEnvValues builds: strings only
EnvTrees == {LMap(m) : m \in TreeSlots({LeafE}, {}, 1)}
\* what ParseSetValues builds: map[string]any all the way down
SetTrees == {LMap(m) : m \in TreeSlots({LeafS}, {"map"}, MaxDepth)}
\* Config.Values: any map[string]any, or the nil map
ConfigTrees == {Nil, LMap(<<>>), LMap(KA :> LeafC), LMap(KA :> LeafS), LMap(KA :> LSlice(<<LeafC>>)),
                LMap(KA :> LMap(KB :> LeafC)), LMap(KB :> LSlice(<<LeafC>>))}

\* arguments of a direct deepMerge(dst, src) call
LeafD == VStr(<<"d">>)
DstTrees == {LMap(m) : m \in TreeSlots({LeafD}, {"map", "ymap"}, MaxDepth)}
SrcTrees == {LMap(m) : m \in TreeSlots({LeafS, LSlice(<<LeafS>>)}, {"map", "ymap"}, MaxDepth)}

-----------------------------------------------------------------------------
(* SpecDeepMerge: one call deepMerge(dst, src) on two arbitrary trees.     *)
(* config holds the arguments, allValues is dst, out the state before.     *)

InitDeepMerge ==
    \E d \in DstTrees, s \in SrcTrees :
        LET r1 == Alloc(<<>>, d)
            r2 == Alloc(r1.h, s)
        IN  /\ heap = r2.h
            /\ config = [dst |-> r1.v, src |-> r2.v]
            /\ allValues = r1.v
    /\ pc = "start"
    /\ environ = <<>>
    /\ yamlValues = Nil /\ envValues = Nil /\ setValues = Nil
    /\ strictTemplate = Nil /\ out = Nil /\ err = Nil
    /\ NoRun

DeepMergeCall ==
    /\ pc = "start"
    /\ heap' = deepMerge(heap, config.dst.a, config.src.a)
    /\ out' = [dst |-> Deref(heap, config.dst), src |-> Deref(heap, config.src)]
    /\ pc' = "done"
    /\ UNCHANGED <<config, environ, yamlValues, envValues, setValues, allValues, strictTemplate, err, run>>

NextDeepMerge == DeepMergeCall

SpecDeepMerge == InitDeepMerge /\ [][NextDeepMerge]_vars

-----------------------------------------------------------------------------
(* SpecMerge: one call MergeValues(yamlValues, envValues, setValues,       *)
(* config.Values) on four arbitrary trees.                                 *)

InitMerge ==
    \E y \in YamlTrees, e \in EnvTrees, s \in SetTrees, c \in ConfigTrees :
        LET r1 == Alloc(<<>>, y)
            r2 == Alloc(r1.h, e)
            r3 == Alloc(r2.h, s)
            r4 == Alloc(r3.h, c)
        IN  /\ heap = r4.h
            /\ yamlValues = r1.v
            /\ envValues = r2.v
            /\ setValues = r3.v
            /\ config = [Values |-> r4.v]
    /\ pc = "start"
    /\ environ = <<>>
    /\ allValues = Nil
    /\ strictTemplate = Nil /\ out = Nil /\ err = Nil
    /\ NoRun

MergeValuesCall ==
    /\ pc = "start"
    /\ LET r == MergeValues(heap, yamlValues, envValues, setValues, config.Values)
       IN  /\ heap' = r.h
           /\ allValues' = r.v
    /\ out' = [heap |-> heap]
    /\ pc' = "done"
    /\ UNCHANGED <<config, environ, yamlValues, envValues, setValues, strictTemplate, err, run>>

NextMerge == MergeValuesCall

SpecMerge == InitMerge /\ [][NextMerge]_vars

-----------------------------------------------------------------------------
(* SpecSet: one call of convertValue, of setNestedValue or of              *)
(* ParseSetValues.  config holds the arguments of the call.                *)

\* all concatenations of at most n of the pieces
RECURSIVE Concats(_, _)
Concats(pieces, n) ==
    IF n = 0 THEN {<<>>}
    ELSE LET prev == Concats(pieces, n - 1)
         IN  prev \cup {p \o q : p \in prev, q \in pieces}

\* all lists of at most n of the items
RECURSIVE ListsUpTo(_, _)
ListsUpTo(items, n) ==
    IF n = 0 THEN {<<>>}
    ELSE LET prev == ListsUpTo(items, n - 1)
         IN  prev \cup {Append(l, x) : l \in prev, x \in items}

\* raw values handed to convertValue
MaxValuePieces == 3
ValuePieces == {<<"t","r","u","e">>, <<"F","A","L","S","E">>, <<"F","a","l","s","e">>, <<"1">>, <<"2","3">>, <<"0">>, <<"-">>, <<"+">>, <<".">>,
                <<"e">>, <<"x">>, <<"i","n","f">>, <<"N","a","N">>, <<" ">>}
ValueExamples == {<<"1","2","3">>, <<"-","4","2">>, <<"3",".","1","4">>, <<"0",".","5">>, <<"h","e","l","l","o">>, <<"T","r","u","e">>, <<"I","n","f","i","n","i","t","y">>}
RawValues == Concats(ValuePieces, MaxValuePieces) \cup ValueExamples

\* raw --set strings handed to ParseSetValues
MaxSetPieces == 4
MaxSetArgs == 2
SetPieces == {<<"a">>, <<"a",".","b">>, <<"=">>, <<",">>, <<" ">>, <<"1">>, <<"=","x">>, <<"b","=","1">>}
SetStrings == Concats(SetPieces, MaxSetPieces)
CoreSetStrings == {<<"a",".","b","=","x">>, <<"a","=","5">>, <<"a",".","b","=","2",".","0">>, <<"b","a","d">>, <<"b","=","t","r","u","e",","," ","a",".","a"," ","="," ","k","=","v"," ">>, <<>>}
SetArgLists == {<<x>> : x \in SetStrings} \cup ListsUpTo(CoreSetStrings, MaxSetArgs)

\* arguments of a direct setNestedValue call
NestInitial == {LMap(<<>>),
                LMap(<<"a">> :> LMap(<<"n">> :> VStr(<<"t","e","s","t">>))),
                LMap(<<"a">> :> VStr(<<"n","o","t","-","a","-","m","a","p">>)),
                LMap(<<"a">> :> VInt(5)),
                LMap(<<"a">> :> LMap(<<"a">> :> LMap(<<"n">> :> VStr(<<"t","e","s","t">>))) @@ <<"b">> :> VBool(TRUE)),
                LMap(<<"a">> :> LMap(<<"a">> :> VStr(<<"l","e","a","f">>)))}
NestKeys == {<<"a">>, <<"b">>, <<"a",".","b">>, <<"a",".","n">>, <<"a",".","a",".","b">>, <<"a",".","a",".","n">>, <<"b",".","a",".","b">>, <<"a",".",".","b">>, <<>>}
NestValues == {VStr(<<"2",".","0">>), VInt(7)}

InitSet ==
    /\ pc = "start"
    /\ heap = <<>>
    /\ config = Nil
    /\ environ = <<>>
    /\ yamlValues = Nil /\ envValues = Nil /\ setValues = Nil /\ allValues = Nil
    /\ strictTemplate = Nil /\ out = Nil /\ err = Nil
    /\ NoRun

ConvertValueCall ==
    /\ pc = "start"
    /\ \E v \in RawValues :
        /\ config' = [value |-> v]
        /\ out' = convertValue(v)
    /\ pc' = "convertValue"
    /\ UNCHANGED <<heap, environ, yamlValues, envValues, setValues, allValues, strictTemplate, err, run>>

\* the state after a call returned r
SetNestedValueReturns(r) == heap' = r.h /\ err' = r.err
ParseSetValuesReturns(r) == heap' = r.h /\ setValues' = r.v /\ err' = r.err
LoadEnvValuesReturns(r) == heap' = r.h /\ envValues' = r.v

\* allValues is the map the call works on, out the tree it held before
SetNestedValueCall ==
    /\ pc = "start"
    /\ \E t \in NestInitial, k \in NestKeys, v \in NestValues :
        /\ config' = [key |-> k, value |-> v]
        /\ out' = t
        /\ allValues' = VRef(1)
        /\ SetNestedValueReturns(setNestedValue(Alloc(<<>>, t).h, 1, k, v))
    /\ pc' = "setNestedValue"
    /\ UNCHANGED <<environ, yamlValues, envValues, setValues, strictTemplate, run>>

ParseSetValuesCall ==
    /\ pc = "start"
    /\ \E strs \in SetArgLists :
        /\ config' = [SetValues |-> strs]
        /\ ParseSetValuesReturns(ParseSetValues(heap, strs))
    /\ pc' = "ParseSetValues"
    /\ UNCHANGED <<environ, yamlValues, envValues, allValues, strictTemplate, out, run>>

NextSet == ConvertValueCall \/ SetNestedValueCall \/ ParseSetValuesCall

SpecSet == InitSet /\ [][NextSet]_vars

-----------------------------------------------------------------------------
(* SpecEnv: one call of toCamelCase or of LoadEnvValues.                   *)

MaxNamePieces == 3
NamePieces == {<<"A">>, <<"b">>, <<"_">>, <<"D","B">>, <<"o","s","t">>, <<"1">>}
NameExamples == {<<"D","A","T","A","B","A","S","E","_","H","O","S","T">>, <<"M","A","X","_","C","O","N","N","E","C","T","I","O","N","S">>, <<"A","_","B","_","C","_","D">>, <<"T","E","S","T">>}
EnvNames == Concats(NamePieces, MaxNamePieces) \cup NameExamples

\* the entries os.Environ() may hold: NAME=value, and an entry without '='
MaxEnv == 2
EnvVarNames == {<<"A","_","B">>, <<"a","_","b">>, <<"A","_","_","B">>, <<"F","O","O">>, <<"f","o","o">>, <<"M","A","X","_","C","O","N","N","E","C","T","I","O","N","S">>, <<>>}
EnvVarValues == {<<"1","0","0">>, <<"x","=","y">>, <<>>}
EnvEntries == {n \o <<"=">> \o v : n \in EnvVarNames, v \in EnvVarValues} \cup {<<"N","O","E","Q">>}
EntryName(e) == IF Index(e, <<"=">>) < 0 THEN e ELSE SliceTo(e, Index(e, <<"=">>))
\* os.Environ() holds a name once
Environs == {l \in ListsUpTo(EnvEntries, MaxEnv) :
                \A i, j \in DOMAIN l : EntryName(l[i]) = EntryName(l[j]) => i = j}

InitEnv ==
    /\ pc = "start"
    /\ heap = <<>>
    /\ config = Nil
    /\ environ = <<>>
    /\ yamlValues = Nil /\ envValues = Nil /\ setValues = Nil /\ allValues = Nil
    /\ strictTemplate = Nil /\ out = Nil /\ err = Nil
    /\ NoRun

ToCamelCaseCall ==
    /\ pc = "start"
    /\ \E n \in EnvNames :
        /\ config' = [s |-> n]
        /\ out' = toCamelCase(n)
    /\ pc' = "toCamelCase"
    /\ UNCHANGED <<heap, environ, yamlValues, envValues, setValues, allValues, strictTemplate, err, run>>

LoadEnvValuesCall ==
    /\ pc = "start"
    /\ \E envs \in Environs :
        /\ environ' = envs
        /\ LoadEnvValuesReturns(LoadEnvValues(heap, envs))
    /\ pc' = "LoadEnvValues"
    /\ UNCHANGED <<config, yamlValues, setValues, allValues, strictTemplate, out, err, run>>

NextEnv == ToCamelCaseCall \/ LoadEnvValuesCall

SpecEnv == InitEnv /\ [][NextEnv]_vars

-----------------------------------------------------------------------------
(* Properties of the merge *)

\* the map value v of heap h defines key k / defines it as a scalar
Defines(h, v, k) == v.t = "ref" /\ k \in DOMAIN h[v.a].m
DefinesScalar(h, v, k) == Defines(h, v, k) /\ h[v.a].m[k].t # "ref"
\* the value under key k
At(h, v, k) == h[v.a].m[k]

\* Config.Values is pre-seeded with nothing
NoConfigValues(h) == Deref(h, config.Values) \in {Nil, LMap(<<>>)}

\* C1: merge precedence.  With no pre-seeded config values, a top-level key
\* that the file tree, the environment tree and the override tree all define
\* as a scalar holds the override's value in the merged tree; a key that only
\* the file tree and the environment tree define holds the environment's.
MergePrecedence ==
    (pc = "done" /\ NoConfigValues(out.heap)) =>
        \A k \in MergeKeys :
            /\ (/\ DefinesScalar(out.heap, yamlValues, k)
                /\ DefinesScalar(out.heap, envValues, k)
                /\ DefinesScalar(out.heap, setValues, k))
               => (Defines(heap, allValues, k)
                   /\ At(heap, allValues, k) = At(out.heap, setValues, k))
            /\ (/\ DefinesScalar(out.heap, yamlValues, k)
                /\ DefinesScalar(out.heap, envValues, k)
                /\ ~Defines(out.heap, setValues, k))
               => (Defines(heap, allValues, k)
                   /\ At(heap, allValues, k) = At(out.heap, envValues, k))

\* a merge where key a is defined by all three sources and key b by the file
\* and the environment only
MergePrecedenceWitness ==
    /\ pc = "done" /\ NoConfigValues(out.heap)
    /\ DefinesScalar(out.heap, yamlValues, KA)
    /\ DefinesScalar(out.heap, envValues, KA)
    /\ DefinesScalar(out.heap, setValues, KA)
    /\ At(heap, allValues, KA) = LeafS
    /\ DefinesScalar(out.heap, yamlValues, KB)
    /\ DefinesScalar(out.heap, envValues, KB)
    /\ ~Defines(out.heap, setValues, KB)
    /\ At(heap, allValues, KB) = LeafE

\* a Value Tree: a mapping, whichever Go map type holds it
\* the tree at address m of heap hm holds, at every key path that the tree at
\* address s of heap hs defines, the value that tree holds there
RECURSIVE HoldsPaths(_, _, _, _)
HoldsPaths(hs, s, hm, m) ==
    \A k \in DOMAIN hs[s].m :
        /\ k \in DOMAIN hm[m].m
        /\ IF IsMap(hs, hs[s].m[k])
           THEN /\ hm[m].m[k].t = "ref"
                /\ hm[hm[m].m[k].a].kind \in {"map", "ymap"}
                /\ HoldsPaths(hs, hs[s].m[k].a, hm, hm[m].m[k].a)
           ELSE Deref(hm, hm[m].m[k]) = Deref(hs, hs[s].m[k])

RECURSIVE HoldsPathsBut(_, _, _, _, _)
HoldsPathsBut(hs, s, c, hm, m) ==
    \A k \in DOMAIN hs[s].m :
        /\ k \in DOMAIN hm[m].m
        /\ IF Defines(hs, c, k) /\ ~(IsMap(hs, hs[s].m[k]) /\ IsMap(hs, At(hs, c, k)))
           THEN Deref(hm, hm[m].m[k]) = Deref(hs, At(hs, c, k))
           ELSE IF IsMap(hs, hs[s].m[k])
           THEN /\ IsMap(hm, hm[m].m[k])
                /\ HoldsPathsBut(hs, hs[s].m[k].a,
                                 IF Defines(hs, c, k) THEN At(hs, c, k) ELSE Nil,
                                 hm, hm[m].m[k].a)
           ELSE Deref(hm, hm[m].m[k]) = Deref(hs, hs[s].m[k])

ConfigValueOverSet ==
    /\ pc = "done"
    /\ DefinesScalar(out.heap, setValues, KA)
    /\ Deref(out.heap, config.Values) = LMap(KA :> LeafC)
    /\ At(heap, allValues, KA) = LeafC
IsTree(l) == l.t \in {"map", "ymap"}

\* a literal with the Go map types of its trees forgotten
RECURSIVE Plain(_)
Plain(l) ==
    IF IsTree(l) THEN [t |-> "tree", m |-> [k \in DOMAIN l.m |-> Plain(l.m[k])]]
    ELSE IF l.t = "slice" THEN [t |-> "slice", m |-> [k \in DOMAIN l.m |-> Plain(l.m[k])]]
    ELSE l

\* r is d with s merged into it: the keys of d that s does not define are
\* kept, the keys of s are added or override, and where both hold a tree the
\* same is true one level down
RECURSIVE NonDestructive(_, _, _)
NonDestructive(d, s, r) ==
    /\ IsTree(r)
    /\ DOMAIN r.m = DOMAIN d.m \cup DOMAIN s.m
    /\ \A k \in DOMAIN d.m \ DOMAIN s.m : Plain(r.m[k]) = Plain(d.m[k])
    /\ \A k \in DOMAIN s.m :
        IF IsTree(s.m[k]) /\ k \in DOMAIN d.m /\ IsTree(d.m[k])
        THEN NonDestructive(d.m[k], s.m[k], r.m[k])
        ELSE Plain(r.m[k]) = Plain(s.m[k])

\* C2: deep merge is non-destructive for disjoint keys.  deepMerge(dst, src)
\* keeps every key of dst that src does not define, at every nesting level
\* where both sides hold a tree, and adds or overrides the keys src defines.
DeepMergeNonDestructive ==
    pc = "done" => NonDestructive(out.dst, out.src, Deref(heap, allValues))

\* the same for trees that are map[string]any all the way down: the trees of
\* TestDeepMerge, and {a:{a:"d"}} merged with {a:{b:"s"}}
RECURSIVE OnlyMaps(_)
OnlyMaps(l) == l.t # "ymap" /\ (l.t \in ContainerKinds => \A k \in DOMAIN l.m : OnlyMaps(l.m[k]))
DeepMergeNonDestructiveOnMaps ==
    (pc = "done" /\ OnlyMaps(out.dst) /\ OnlyMaps(out.src))
        => NonDestructive(out.dst, out.src, Deref(heap, allValues))

\* dst holds under a a tree the YAML parser built, src a tree under a with
\* another key: the key of dst is gone after the merge
DeepMergeDropsKey ==
    /\ pc = "done"
    /\ out.dst = LMap(KA :> LYMap(KB :> LeafD))
    /\ out.src = LMap(KA :> LMap(KA :> LeafS))
    /\ Deref(heap, allValues) = LMap(KA :> LMap(KA :> LeafS))

\* the merge of the documented example on map[string]any trees
DeepMergeExample ==
    /\ pc = "done"
    /\ out.dst = LMap(KA :> LMap(KA :> LeafD))
    /\ out.src = LMap(KA :> LMap(KB :> LeafS))
    /\ Deref(heap, allValues) = LMap(KA :> LMap(KA :> LeafD @@ KB :> LeafS))

\* the containers of the four source trees, before the merge
SourceContainers ==
    Reach(out.heap, yamlValues) \cup Reach(out.heap, envValues)
        \cup Reach(out.heap, setValues) \cup Reach(out.heap, config.Values)

\* C6: merge does not alias sources.  After MergeValues no container
\* reachable from the merged tree is a container of one of the four sources.
MergeDoesNotAlias ==
    pc = "done" => Reach(heap, allValues) \cap SourceContainers = {}

\* the file tree holds a nested tree, and the merged tree holds that very
\* container
MergeAliasesFileTree ==
    /\ pc = "done"
    /\ Defines(out.heap, yamlValues, KA)
    /\ At(out.heap, yamlValues, KA).t = "ref"
    /\ At(heap, allValues, KA) = At(out.heap, yamlValues, KA)

-----------------------------------------------------------------------------
(* Properties of the override parser *)

\* the value a tree literal holds at a path of keys, Nil when there is none
RECURSIVE Lookup(_, _)
Lookup(t, segs) ==
    IF t.t # "map" \/ Head(segs) \notin DOMAIN t.m THEN Nil
    ELSE IF Len(segs) = 1 THEN t.m[Head(segs)]
    ELSE Lookup(t.m[Head(segs)], Tail(segs))

\* an intermediate segment of the path already holds a non-tree value in b
RECURSIVE Blocked(_, _)
Blocked(b, segs) ==
    /\ Len(segs) > 1
    /\ Head(segs) \in DOMAIN b.m
    /\ (b.m[Head(segs)].t # "map" \/ Blocked(b.m[Head(segs)], Tail(segs)))

\* a is b with value written at the path: along the path every sibling is
\* kept, every intermediate is a tree, and the last segment holds the value
RECURSIVE Written(_, _, _, _)
Written(b, a, segs, value) ==
    /\ a.t = "map"
    /\ DOMAIN a.m = DOMAIN b.m \cup {Head(segs)}
    /\ \A k \in DOMAIN b.m \ {Head(segs)} : a.m[k] = b.m[k]
    /\ IF Len(segs) = 1 THEN a.m[Head(segs)] = value
       ELSE Written(IF Head(segs) \in DOMAIN b.m THEN b.m[Head(segs)] ELSE LMap(<<>>),
                    a.m[Head(segs)], Tail(segs), value)

\* C7: override nesting.  Writing a value at a dotted key creates the missing
\* intermediate trees and keeps the existing siblings, and fails exactly when
\* an intermediate segment already holds a non-tree value: a.n=test on {}
\* gives {a:{n:"test"}}, a.b=2.0 on {a:{n:"test"}} gives
\* {a:{n:"test", b:"2.0"}}, a.b=2.0 on {a:"not-a-map"} fails.
SetNestedValueNests ==
    pc = "setNestedValue" =>
        /\ (err # Nil) <=> Blocked(out, Split(config.key, <<".">>))
        /\ err = Nil => Written(out, Deref(heap, allValues), Split(config.key, <<".">>),
                                config.value)
        /\ (out = LMap(<<>>) /\ config.key = <<"a",".","n">>)
            => Deref(heap, allValues) = LMap(<<"a">> :> LMap(<<"n">> :> config.value))
        /\ (out = LMap(<<"a">> :> LMap(<<"n">> :> VStr(<<"t","e","s","t">>))) /\ config.key = <<"a",".","b">>)
            => Deref(heap, allValues)
                 = LMap(<<"a">> :> LMap(<<"n">> :> VStr(<<"t","e","s","t">>) @@ <<"b">> :> config.value))
        /\ (out = LMap(<<"a">> :> VStr(<<"n","o","t","-","a","-","m","a","p">>)) /\ config.key = <<"a",".","b">>)
            => err = NotAMapError(<<"a">>)

\* a.b=2.0 written where a holds {n:"test"}
SetNestedValueKeepsSibling ==
    /\ pc = "setNestedValue" /\ err = Nil
    /\ out = LMap(<<"a">> :> LMap(<<"n">> :> VStr(<<"t","e","s","t">>)))
    /\ config = [key |-> <<"a",".","b">>, value |-> VStr(<<"2",".","0">>)]
    /\ Deref(heap, allValues)
         = LMap(<<"a">> :> LMap(<<"n">> :> VStr(<<"t","e","s","t">>) @@ <<"b">> :> VStr(<<"2",".","0">>)))

\* the trimmed, non-empty segments of the raw strings, in order
RECURSIVE Segments(_)
Segments(strs) ==
    IF strs = <<>> THEN <<>>
    ELSE LET parts == Split(Head(strs), <<",">>)
         IN  SelectSeq([i \in DOMAIN parts |-> TrimSpace(parts[i])], LAMBDA p : p # <<>>)
                 \o Segments(Tail(strs))

\* value written at a path of a tree literal: the new literal, or Nil when an
\* intermediate segment holds a non-tree value
RECURSIVE PathWrite(_, _, _)
PathWrite(t, segs, value) ==
    IF Len(segs) = 1 THEN LMap((Head(segs) :> value) @@ t.m)
    ELSE LET sub == IF Head(segs) \in DOMAIN t.m THEN t.m[Head(segs)] ELSE LMap(<<>>)
             new == IF sub.t = "map" THEN PathWrite(sub, Tail(segs), value) ELSE Nil
         IN  IF new = Nil THEN Nil ELSE LMap((Head(segs) :> new) @@ t.m)

\* the segments applied one after the other to tree t: the first segment
\* without '=' is a format error, the text before the first '=' is the key,
\* the text after it the value
RECURSIVE ApplySegments(_, _)
ApplySegments(t, segs) ==
    IF segs = <<>> THEN [kind |-> "ok", tree |-> t]
    ELSE LET seg == Head(segs)
             eq == Index(seg, <<"=">>)
             new == PathWrite(t, Split(TrimSpace(SliceTo(seg, eq)), <<".">>),
                              convertValue(TrimSpace(SliceFrom(seg, eq + 1))))
         IN  IF eq < 0 THEN [kind |-> "format", pair |-> seg]
             ELSE IF new = Nil THEN [kind |-> "nested", key |-> TrimSpace(SliceTo(seg, eq))]
             ELSE ApplySegments(new, Tail(segs))

ParseSetValuesAgrees(ref) ==
    /\ ref.kind = "format" => (err = FormatError(ref.pair) /\ setValues = Nil)
    /\ ref.kind = "nested" => (/\ err.kind = "error setting nested value"
                               /\ err.key = ref.key
                               /\ setValues = Nil)
    /\ ref.kind = "ok" => (err = Nil /\ Deref(heap, setValues) = ref.tree)

\* C8: override parsing.  ParseSetValues processes the raw strings in order,
\* splits each on ',', trims each segment and skips the empty ones, splits a
\* segment at its first '=' only, trims key and value, and fails the whole
\* parse with a format error, returning no tree, as soon as a segment
\* contains no '='.
ParseSetValuesParses ==
    pc = "ParseSetValues" =>
        ParseSetValuesAgrees(ApplySegments(LMap(<<>>), Segments(config.SetValues)))

\* a raw string of two pairs, the second with a '=' in its value
ParseSetValuesEqualsInValue ==
    /\ pc = "ParseSetValues" /\ err = Nil
    /\ config.SetValues = <<<<"b","=","t","r","u","e",","," ","a",".","a"," ","="," ","k","=","v"," ">>>>
    /\ Deref(heap, setValues) = LMap(<<"b">> :> VBool(TRUE) @@ <<"a">> :> LMap(<<"a">> :> VStr(<<"k","=","v">>)))

\* C9: override type inference.  convertValue gives a boolean for "true" and
\* "false" in any case; else the integer of a value that parses as a base-10
\* integer; else the float of a value that parses as a floating-point number;
\* else the string unchanged.
ConvertValueInOrder ==
    pc = "convertValue" =>
        /\ IF ToLower(config.value) = <<"t","r","u","e">> THEN out = VBool(TRUE)
           ELSE IF ToLower(config.value) = <<"f","a","l","s","e">> THEN out = VBool(FALSE)
           ELSE IF Atoi(config.value).ok THEN out = VInt(Atoi(config.value).i)
           ELSE IF ParseFloat(config.value).ok
                THEN out.t = "float" /\ out = ParseFloat(config.value).f
           ELSE out = VStr(config.value)
        /\ config.value = <<"t","r","u","e">> => out = VBool(TRUE)
        /\ config.value = <<"F","A","L","S","E">> => out = VBool(FALSE)
        /\ config.value = <<"1","2","3">> => out = VInt(123)
        /\ config.value = <<"-","4","2">> => out = VInt(-42)
        /\ config.value = <<"3",".","1","4">> => out = VFloat("num", 314, -2)
        /\ config.value = <<"h","e","l","l","o">> => out = VStr(<<"h","e","l","l","o">>)
        /\ config.value = <<>> => out = VStr(<<>>)

\* "123" parses as an integer and as a float: the integer is taken
ConvertValueIntBeforeFloat ==
    /\ pc = "convertValue"
    /\ config.value = <<"1","2","3">>
    /\ ParseFloat(config.value).ok
    /\ out = VInt(123)

-----------------------------------------------------------------------------
(* Properties of the environment tree *)

\* the entries of the environment that are NAME=value
EnvVars == {i \in DOMAIN environ : Index(environ[i], <<"=">>) >= 0}
EnvName(i) == SliceTo(environ[i], Index(environ[i], <<"=">>))
EnvValue(i) == SliceFrom(environ[i], Index(environ[i], <<"=">>) + 1)
\* the last variable whose name gives the same key as variable i
LastWithKey(i) ==
    CHOOSE j \in EnvVars :
        /\ toCamelCase(EnvName(j)) = toCamelCase(EnvName(i))
        /\ \A l \in EnvVars : toCamelCase(EnvName(l)) = toCamelCase(EnvName(i)) => l <= j

\* C10 as stated: one entry per environment variable NAME=value, under the
\* key toCamelCase(NAME), holding the raw string value.
LoadEnvValuesOnePerVariable ==
    pc = "LoadEnvValues" =>
        /\ Cardinality(DOMAIN heap[envValues.a].m) = Cardinality(EnvVars)
        /\ \A i \in EnvVars :
            /\ toCamelCase(EnvName(i)) \in DOMAIN heap[envValues.a].m
            /\ heap[envValues.a].m[toCamelCase(EnvName(i))] = VStr(EnvValue(i))

\* C10: the environment tree.  LoadEnvValues yields one entry per distinct
\* key toCamelCase(NAME) of the variables NAME=value, split at the first
\* '='; the entry holds the raw string value of the last variable with that
\* key; no variable's key is missing and no other key is present.
LoadEnvValuesOnePerKey ==
    pc = "LoadEnvValues" =>
        /\ heap[envValues.a].kind = "map"
        /\ DOMAIN heap[envValues.a].m = {toCamelCase(EnvName(i)) : i \in EnvVars}
        /\ \A i \in EnvVars :
            heap[envValues.a].m[toCamelCase(EnvName(i))] = VStr(EnvValue(LastWithKey(i)))

\* FOO=100 and foo=x=y loaded: one entry, the string of the later variable
LoadEnvValuesCollision ==
    /\ pc = "LoadEnvValues"
    /\ environ = <<<<"F","O","O","=","1","0","0">>, <<"f","o","o","=","x","=","y">>>>
    /\ Deref(heap, envValues) = LMap(<<"f","o","o">> :> VStr(<<"x","=","y">>))

\* the name read character by character: an underscore is dropped and makes
\* the next character that is none a capital, every other character is small
RECURSIVE CamelWalk(_, _)
CamelWalk(s, capital) ==
    IF s = <<>> THEN <<>>
    ELSE IF Head(s) = "_" THEN CamelWalk(Tail(s), TRUE)
    ELSE <<IF capital THEN UpperChar(LowerChar(Head(s))) ELSE LowerChar(Head(s))>>
             \o CamelWalk(Tail(s), FALSE)

\* C11: env camelCase.  toCamelCase lower-cases the whole name, splits it on
\* '_', keeps the first segment and upper-cases the first character of every
\* later non-empty segment before concatenating: DATABASE_HOST gives
\* databaseHost, MAX_CONNECTIONS maxConnections, A_B_C_D aBCD, the empty
\* string the empty string; the result never contains '_'.
ToCamelCaseConverts ==
    pc = "toCamelCase" =>
        /\ out = CamelWalk(config.s, FALSE)
        /\ \A i \in DOMAIN out : out[i] # "_"
        /\ config.s = <<"D","A","T","A","B","A","S","E","_","H","O","S","T">> => out = <<"d","a","t","a","b","a","s","e","H","o","s","t">>
        /\ config.s = <<"M","A","X","_","C","O","N","N","E","C","T","I","O","N","S">> => out = <<"m","a","x","C","o","n","n","e","c","t","i","o","n","s">>
        /\ config.s = <<"A","_","B","_","C","_","D">> => out = <<"a","B","C","D">>
        /\ config.s = <<>> => out = <<>>

\* a name of capitals and small letters in two segments
ToCamelCaseMixed ==
    /\ pc = "toCamelCase"
    /\ config.s = <<"D","B","_","o","s","t">>
    /\ out = <<"d","b","O","s","t">>

-----------------------------------------------------------------------------
(* SpecTmpl: a wrapper is created, parses a template and executes it.      *)
(* config holds the arguments of the calls.                                *)

TemplateNames == {<<"t","e","s","t">>, <<"p","a","t","h">>, <<"a","p","p",".","c","o","n","f",".","t","p","l">>, <<"k","e","y"," ","\"","v","\"",".","t","p","l">>}
TemplateSources ==
    {<<"{","{",".","a","p","p",".","f","i","e","l","d","}","}">>, <<"H","e","l","l","o"," ","{","{",".","n","a","m","e","}","}","!">>, <<"H","e","l","l","o"," ","{","{",".","u","n","d","e","f","i","n","e","d","}","}","!">>, <<"A","p","p",":"," ","{","{",".","a","p","p",".","u","n","d","e","f","i","n","e","d","}","}">>,
     <<"D","a","t","a","b","a","s","e",":"," ","{","{",".","d","a","t","a","b","a","s","e",".","h","o","s","t","}","}">>, <<"{","{",".","a","p","p",".","n","a","m","e","}","}","\n","{","{",".","u","n","d","e","f","i","n","e","d","}","}"," ","{","{",".","n","a","m","e","}","}">>,
     <<"{","{",".","n","a","m","e",".","f","i","r","s","t","}","}">>, <<"{","{",".","n","a","m","e"," ","|"," ","u","p","p","e","r","}","}">>, <<"{","{",".","u","n","d","e","f","i","n","e","d"," ","|"," ","u","p","p","e","r","}","}">>,
     <<"{","{","d","e","f","a","u","l","t"," ","\"","f","a","l","l","b","a","c","k","\""," ",".","u","n","d","e","f","i","n","e","d","}","}">>, <<"{","{","f","a","i","l"," ","\"","b","o","o","m","\"","}","}">>,
     <<"{","{","f","a","i","l"," ","\"","c","a","n","'","t"," ","e","v","a","l","u","a","t","e"," ","f","i","e","l","d"," ","x","\"","}","}">>, <<"{","{",".","a","p","p","}","}">>, <<"{","{",".","a","p","p",".","n","a","m","e",".","x","}","}">>,
     <<"n","o"," ","a","c","t","i","o","n","s">>, <<>>, <<"{","{",".","n","a","m","e">>, <<"{","{","n","o","f","u","n","c"," ",".","n","a","m","e","}","}">>, <<"{","{","}","}">>}
TemplateData ==
    {LMap(<<>>), LMap(<<"n","a","m","e">> :> VStr(<<"w","o","r","l","d">>)),
     LMap(<<"a","p","p">> :> LMap(<<"n","a","m","e">> :> VStr(<<"m","y","a","p","p">>))),
     LMap(<<"a","p","p">> :> LYMap(<<"n","a","m","e">> :> VStr(<<"m","y","a","p","p">>)) @@ <<"n","a","m","e">> :> VStr(<<"w","o","r","l","d">>)),
     LMap(<<"a","p","p">> :> VStr(<<"x">>) @@ <<"u","n","d","e","f","i","n","e","d">> :> VInt(0)),
     LMap(<<"a","p","p">> :> LMap(<<"n","a","m","e">> :> Nil) @@ <<"n","a","m","e">> :> Nil)}

InitTmpl ==
    /\ pc = "start"
    /\ heap = <<>>
    /\ config = Nil
    /\ environ = <<>>
    /\ yamlValues = Nil /\ envValues = Nil /\ setValues = Nil /\ allValues = Nil
    /\ strictTemplate = Nil /\ out = Nil /\ err = Nil
    /\ NoRun

NewStrictTemplateCall ==
    /\ pc = "start"
    /\ \E name \in TemplateNames, strictMode \in BOOLEAN :
        strictTemplate' = NewStrictTemplate(name, strictMode)
    /\ pc' = "NewStrictTemplate"
    /\ UNCHANGED <<heap, config, environ, yamlValues, envValues, setValues, allValues, out, err, run>>

\* the state after the calls returned r
ParseTemplateReturns(r) ==
    /\ strictTemplate' = (IF r.err # Nil THEN strictTemplate ELSE r.st)
    /\ out' = r.st
    /\ err' = r.err
ExecuteTemplateReturns(r) == out' = r.result /\ err' = r.err

\* out is the wrapper ParseTemplate returned (Nil with an error)
ParseTemplateCall ==
    /\ pc = "NewStrictTemplate"
    /\ \E content \in TemplateSources :
        /\ config' = [content |-> content]
        /\ ParseTemplateReturns(ParseTemplate(strictTemplate, content))
    /\ pc' = "ParseTemplate"
    /\ UNCHANGED <<heap, environ, yamlValues, envValues, setValues, allValues, run>>

\* allValues is the data the template is executed with
ExecuteTemplateCall ==
    /\ pc = "ParseTemplate" /\ err = Nil
    /\ \E data \in TemplateData :
        /\ heap' = Alloc(heap, data).h
        /\ allValues' = Alloc(heap, data).v
        /\ ExecuteTemplateReturns(ExecuteTemplate(Alloc(heap, data).h, strictTemplate, Alloc(heap, data).v))
    /\ pc' = "ExecuteTemplate"
    /\ UNCHANGED <<config, environ, yamlValues, envValues, setValues, strictTemplate, run>>

\* sprig.TxtFuncMap(): the functions of sprig the model names (of about two
\* hundred), each bound to sprig's implementation
SprigTxtFuncMap ==
    [n \in {<<"u","p","p","e","r">>, <<"d","e","f","a","u","l","t">>, <<"f","a","i","l">>, <<"q","u","o","t","e">>, <<"s","q","u","o","t","e">>, <<"c","a","t">>, <<"i","n","d","e","n","t">>,
            <<"n","i","n","d","e","n","t">>, <<"r","e","p","l","a","c","e">>, <<"e","n","v">>, <<"e","x","p","a","n","d","e","n","v">>, <<"t","o","J","s","o","n">>, <<"m","u","s","t","T","o","J","s","o","n">>,
            <<"f","r","o","m","J","s","o","n">>, <<"t","o","P","r","e","t","t","y","J","s","o","n">>} |-> [pkg |-> "sprig", fn |-> n]]

\* the functions GetTemplateFuncs adds: the format conversions of this
\* package and the placeholders
ExtraFuncs ==
    (<<"t","o","Y","a","m","l">> :> [pkg |-> "template", fn |-> <<"t","o","Y","A","M","L">>])
    @@ (<<"m","u","s","t","T","o","Y","a","m","l">> :> [pkg |-> "template", fn |-> <<"m","u","s","t","T","o","Y","A","M","L">>])
    @@ (<<"t","o","Y","a","m","l","P","r","e","t","t","y">> :> [pkg |-> "template", fn |-> <<"t","o","Y","A","M","L","P","r","e","t","t","y">>])
    @@ (<<"f","r","o","m","Y","a","m","l">> :> [pkg |-> "template", fn |-> <<"f","r","o","m","Y","A","M","L">>])
    @@ (<<"f","r","o","m","Y","a","m","l","A","r","r","a","y">> :> [pkg |-> "template", fn |-> <<"f","r","o","m","Y","A","M","L","A","r","r","a","y">>])
    @@ (<<"t","o","J","s","o","n">> :> [pkg |-> "template", fn |-> <<"t","o","J","S","O","N">>])
    @@ (<<"m","u","s","t","T","o","J","s","o","n">> :> [pkg |-> "template", fn |-> <<"m","u","s","t","T","o","J","S","O","N">>])
    @@ (<<"f","r","o","m","J","s","o","n">> :> [pkg |-> "template", fn |-> <<"f","r","o","m","J","S","O","N">>])
    @@ (<<"f","r","o","m","J","s","o","n","A","r","r","a","y">> :> [pkg |-> "template", fn |-> <<"f","r","o","m","J","S","O","N","A","r","r","a","y">>])
    @@ (<<"t","o","T","o","m","l">> :> [pkg |-> "template", fn |-> <<"t","o","T","O","M","L">>])
    @@ (<<"f","r","o","m","T","o","m","l">> :> [pkg |-> "template", fn |-> <<"f","r","o","m","T","O","M","L">>])
    @@ (<<"i","n","c","l","u","d","e">> :> [pkg |-> "template", fn |-> <<"n","o","t"," ","i","m","p","l","e","m","e","n","t","e","d">>])
    @@ (<<"t","p","l">> :> [pkg |-> "template", fn |-> <<"n","o","t"," ","i","m","p","l","e","m","e","n","t","e","d">>])
    @@ (<<"r","e","q","u","i","r","e","d">> :> [pkg |-> "template", fn |-> <<"n","o","t"," ","i","m","p","l","e","m","e","n","t","e","d">>])
    @@ (<<"l","o","o","k","u","p">> :> [pkg |-> "template", fn |-> <<"n","o","t"," ","i","m","p","l","e","m","e","n","t","e","d">>])

\* a GetTemplateFuncs that copies sprig's functions over the added ones and
\* deletes nothing
GetTemplateFuncsSprigLast == SprigTxtFuncMap @@ ExtraFuncs

\* GetTemplateFuncs(): delete(f, "env"), delete(f, "expandenv"),
\* maps.Copy(f, extra)
GetTemplateFuncs ==
    ExtraFuncs @@ [n \in DOMAIN SprigTxtFuncMap \ {<<"e","n","v">>, <<"e","x","p","a","n","d","e","n","v">>} |-> SprigTxtFuncMap[n]]

\* out is the table GetTemplateFuncs returned
GetTemplateFuncsCall ==
    /\ pc = "start"
    /\ out' = GetTemplateFuncs
    /\ pc' = "GetTemplateFuncs"
    /\ UNCHANGED <<heap, config, environ, yamlValues, envValues, setValues, allValues,
                   strictTemplate, err, run>>
\* the messages extractVariableFromError is called with: those of the tests,
\* and the failures of the engine behind the locations it reports them at
MessageLocations ==
    {<<>>, <<"t","e","m","p","l","a","t","e",":"," ","t","e","s","t",":","1",":","2",":"," ","e","x","e","c","u","t","i","n","g"," ","\"","t","e","s","t","\""," ","a","t"," ","<",".","a",">",":"," ">>,
     <<"t","e","m","p","l","a","t","e",":"," ","k","e","y"," ","\"","v","\"",".","t","p","l",":","1",":","2",":"," ">>, <<"t","e","m","p","l","a","t","e",":"," ","f","i","e","l","d"," ","n","o","t","e","s",":","1",":","2",":"," ">>}
MessageFailures ==
    {<<"m","a","p"," ","h","a","s"," ","n","o"," ","e","n","t","r","y"," ","f","o","r"," ","k","e","y"," ","\"","u","n","d","e","f","i","n","e","d","\"">>, <<"m","a","p"," ","h","a","s"," ","n","o"," ","e","n","t","r","y"," ","f","o","r"," ","k","e","y"," ","\"","\"">>,
     <<"m","a","p"," ","h","a","s"," ","n","o"," ","e","n","t","r","y"," ","f","o","r"," ","k","e","y"," ","\"","o","p","e","n">>, <<"c","a","n","'","t"," ","e","v","a","l","u","a","t","e"," ","f","i","e","l","d"," ","m","i","s","s","i","n","g"," ","i","n"," ","t","y","p","e"," ","s","t","r","i","n","g">>,
     <<"c","a","n","'","t"," ","e","v","a","l","u","a","t","e"," ","f","i","e","l","d"," ","f","i","e","l","d"," ","i","n"," ","t","y","p","e"," ","s","t","r","i","n","g">>, <<"c","a","n","'","t"," ","e","v","a","l","u","a","t","e"," ","f","i","e","l","d">>,
     <<"e","r","r","o","r"," ","c","a","l","l","i","n","g"," ","f","a","i","l",":"," ","b","o","o","m">>, <<"n","i","l"," ","d","a","t","a",";"," ","n","o"," ","e","n","t","r","y"," ","f","o","r"," ","k","e","y"," ","\"","n","a","m","e","\"">>, <<>>}
ErrorMessages ==
    {l \o f : l \in MessageLocations, f \in MessageFailures}
    \cup {<<"t","e","m","p","l","a","t","e",":"," ","t","e","s","t",":","1",":","2",":"," ","e","x","e","c","u","t","i","n","g"," ","\"","t","e","s","t","\""," ","a","t"," ","<",".","u","n","d","e","f","i","n","e","d",">",":"," ","m","a","p"," ","h","a","s"," ","n","o"," ","e","n","t","r","y"," ","f","o","r"," ","k","e","y"," ","\"","u","n","d","e","f","i","n","e","d","\"">>,
          <<"t","e","m","p","l","a","t","e",":"," ","t","e","s","t",":","1",":","2",":"," ","e","x","e","c","u","t","i","n","g"," ","\"","t","e","s","t","\""," ","a","t"," ","<",".","a","p","p",".","m","i","s","s","i","n","g",">",":"," ","c","a","n","'","t"," ","e","v","a","l","u","a","t","e"," ","f","i","e","l","d"," ","m","i","s","s","i","n","g"," ","i","n"," ","t","y","p","e"," ","m","a","p","[","s","t","r","i","n","g","]","i","n","t","e","r","f","a","c","e"," ","{","}">>,
          <<"s","o","m","e"," ","o","t","h","e","r"," ","e","r","r","o","r">>}

\* out is the variable extracted from the message config.errMsg
ExtractVariableCall ==
    /\ pc = "start"
    /\ \E errMsg \in ErrorMessages :
        /\ config' = [errMsg |-> errMsg]
        /\ out' = extractVariableFromError(errMsg)
    /\ pc' = "extractVariableFromError"
    /\ UNCHANGED <<heap, environ, yamlValues, envValues, setValues, allValues, strictTemplate, err, run>>

NextTmpl ==
    \/ NewStrictTemplateCall
    \/ ParseTemplateCall
    \/ ExecuteTemplateCall
    \/ ExtractVariableCall
    \/ GetTemplateFuncsCall

SpecTmpl == InitTmpl /\ [][NextTmpl]_vars

-----------------------------------------------------------------------------
(* Properties of the strict-mode wrapper *)

\* the lookup of a chain of keys in the trees of value v: found with its
\* value, a key missing from a tree, or a value on the way that is no tree
RECURSIVE Find(_, _, _)
Find(h, v, chain) ==
    IF ~(v.t = "ref" /\ h[v.a].kind \in {"map", "ymap"}) THEN [k |-> "other"]
    ELSE IF Head(chain) \notin DOMAIN h[v.a].m THEN [k |-> "missing", key |-> Head(chain)]
    ELSE IF Len(chain) = 1 THEN [k |-> "found", v |-> h[v.a].m[Head(chain)]]
    ELSE Find(h, h[v.a].m[Head(chain)], Tail(chain))

\* an action that is the lookup of one chain of keys
IsLookup(node) ==
    /\ Len(node.cmds) = 1
    /\ Len(node.cmds[1].args) = 1
    /\ node.cmds[1].args[1].o = "field"
LookupOf(node) == Find(heap, allValues, node.cmds[1].args[1].chain)

\* the parsed template and its actions
Nodes == strictTemplate.tree.nodes
Actions == {i \in DOMAIN Nodes : Nodes[i].n = "action"}
MissingLookups == {i \in Actions : LookupOf(Nodes[i]).k = "missing"}

\* the template only looks keys up, every lookup ends at a value or at a
\* key that its tree does not hold, and one at least is of the second kind
MissingKeyCase ==
    /\ pc = "ExecuteTemplate"
    /\ \A i \in Actions : IsLookup(Nodes[i]) /\ LookupOf(Nodes[i]).k \in {"found", "missing"}
    /\ MissingLookups # {}

\* the key of the first lookup that misses
FirstMissingKey ==
    LookupOf(Nodes[CHOOSE i \in MissingLookups : \A j \in MissingLookups : i <= j]).key

\* the text with the placeholder at every lookup that misses
RECURSIVE Rendered(_)
Rendered(nodes) ==
    IF nodes = <<>> THEN <<>>
    ELSE (IF Head(nodes).n = "text" THEN Head(nodes).s
          ELSE IF LookupOf(Head(nodes)).k = "missing" THEN <<"<","n","o"," ","v","a","l","u","e",">">>
          ELSE printValue(heap, LookupOf(Head(nodes)).v)) \o Rendered(Tail(nodes))

MissingKeyOutcome ==
    IF strictTemplate.StrictMode
    THEN err = StrictModeError(FirstMissingKey, strictTemplate.name) /\ out = <<>>
    ELSE err = Nil /\ out = Rendered(Nodes)

\* C4: for a template that looks up a key absent from the data, at
\* any depth, a lenient wrapper renders <no value> at that position and a
\* strict wrapper fails with a StrictModeError whose Variable is the missing
\* key and whose Template is the wrapper's name.
MissingKeyAnyName == MissingKeyCase => MissingKeyOutcome

\* the name of the wrapper does not hold the text the key is searched after
PlainName == ~Contains(strictTemplate.name, <<"k","e","y"," ">> \o <<"\"">>)

\* the outcome is the stated one whenever the name of the wrapper does not
\* contain the text key followed by a double quote
MissingKeyPlainName == (MissingKeyCase /\ PlainName) => MissingKeyOutcome

\* a strict wrapper whose name holds the text the key is searched after
\* names a piece of its own name, not the missing key
MissingKeyMisnamed ==
    /\ pc = "ExecuteTemplate"
    /\ strictTemplate.StrictMode /\ ~PlainName
    /\ config.content = <<"H","e","l","l","o"," ","{","{",".","u","n","d","e","f","i","n","e","d","}","}","!">>
    /\ Deref(heap, allValues) = LMap(<<"n","a","m","e">> :> VStr(<<"w","o","r","l","d">>))
    /\ FirstMissingKey = <<"u","n","d","e","f","i","n","e","d">>
    /\ err = StrictModeError(<<"v">>, strictTemplate.name)

\* the nested lookup of the tests, executed by a strict wrapper
MissingKeyNested ==
    /\ pc = "ExecuteTemplate"
    /\ strictTemplate.StrictMode /\ strictTemplate.name = <<"t","e","s","t">>
    /\ config.content = <<"A","p","p",":"," ","{","{",".","a","p","p",".","u","n","d","e","f","i","n","e","d","}","}">>
    /\ Deref(heap, allValues) = LMap(<<"a","p","p">> :> LMap(<<"n","a","m","e">> :> VStr(<<"m","y","a","p","p">>)))
    /\ err = StrictModeError(<<"u","n","d","e","f","i","n","e","d">>, <<"t","e","s","t">>)

\* the error of the first action that fails, as the engine raises it
RECURSIVE FirstFailure(_, _, _, _)
FirstFailure(h, strict, dot, nodes) ==
    IF nodes = <<>> THEN Nil
    ELSE IF Head(nodes).n = "text" THEN FirstFailure(h, strict, dot, Tail(nodes))
    ELSE IF evalPipeline(h, strict, dot, Head(nodes).cmds, Value(Missing)).e # Nil
    THEN evalPipeline(h, strict, dot, Head(nodes).cmds, Value(Missing)).e
    ELSE FirstFailure(h, strict, dot, Tail(nodes))

HasPrefix(s, prefix) == Len(s) >= Len(prefix) /\ SliceTo(s, Len(prefix)) = prefix

\* the engine failed because a key is missing (the option missingkey=error)
MissingKeyFailure(e) ==
    /\ e # Nil
    /\ \/ HasPrefix(e.msg, <<"m","a","p"," ","h","a","s"," ","n","o"," ","e","n","t","r","y"," ","f","o","r"," ","k","e","y"," ">>)
       \/ HasPrefix(e.msg, <<"n","i","l"," ","d","a","t","a",";"," ","n","o"," ","e","n","t","r","y"," ","f","o","r"," ","k","e","y"," ">>)

IsStrictModeError(e) == e # Nil /\ e.kind = "StrictModeError"

\* the result of the engine for the execution that was made
EngineResult ==
    Execute(heap, strictTemplate.missingkey = "error", strictTemplate.name,
            strictTemplate.tree, allValues)
EngineFailure ==
    FirstFailure(heap, strictTemplate.missingkey = "error", allValues, Nodes)

\* C5: error classification.  ExecuteTemplate returns a StrictModeError if
\* and only if the wrapper is in strict mode and the engine's failure is a
\* missing-key failure; ParseTemplate never returns one, its error is the
\* engine's; every other execution failure is the engine's error unchanged.
ErrorClassification ==
    /\ pc = "ParseTemplate" =>
        (~IsStrictModeError(err) /\ err = Parse(strictTemplate.name, config.content).err)
    /\ pc = "ExecuteTemplate" =>
        /\ IsStrictModeError(err)
             <=> (strictTemplate.StrictMode /\ MissingKeyFailure(EngineFailure))
        /\ (EngineResult.err # Nil /\ ~MissingKeyFailure(EngineFailure))
             => err = EngineResult.err

\* a strict wrapper evaluates a field of a string: the engine's failure is
\* no missing key, the wrapper returns a StrictModeError
FieldOfStringClassified ==
    /\ pc = "ExecuteTemplate"
    /\ strictTemplate.StrictMode
    /\ config.content = <<"{","{",".","n","a","m","e",".","f","i","r","s","t","}","}">>
    /\ Deref(heap, allValues) = LMap(<<"n","a","m","e">> :> VStr(<<"w","o","r","l","d">>))
    /\ ~MissingKeyFailure(EngineFailure)
    /\ err = StrictModeError(<<"f","i","r","s","t">>, strictTemplate.name)

\* the key K of a message that ends in: map has no entry for key "K"
MessageKey(errMsg) ==
    LET at == Index(errMsg, <<"m","a","p"," ","h","a","s"," ","n","o"," ","e","n","t","r","y"," ","f","o","r"," ","k","e","y"," ","\"">>)
    IN  IF at < 0 \/ ~HasSuffix(errMsg, <<"\"">>) THEN <<>>
        ELSE SliceTo(SliceFrom(errMsg, at + 26), Len(errMsg) - at - 27)

\* the field F of a message that holds: can't evaluate field F in type T
MessageField(errMsg) ==
    LET at == Index(errMsg, <<"c","a","n","'","t"," ","e","v","a","l","u","a","t","e"," ","f","i","e","l","d"," ">>)
    IN  IF at < 0 THEN <<>> ELSE Split(SliceFrom(errMsg, at + 21), <<" ">>)[1]

\* C13: a strict-mode violation never omits the key.  For every message of
\* the engine, extractVariableFromError returns a non-empty string: the key K
\* of a message of the form `map has no entry for key "K"`, the field F of a
\* message of the form `can't evaluate field F ...`, and the literal
\* "unknown" for a message of neither form or without a key to extract; so
\* the StrictModeError that ExecuteTemplate returns names a variable.
ViolationNamesKey ==
    /\ pc = "extractVariableFromError" =>
        /\ out # <<>>
        /\ MessageKey(config.errMsg) # <<>> => out = MessageKey(config.errMsg)
        /\ MessageKey(config.errMsg) = <<>> /\ MessageField(config.errMsg) # <<>> =>
               out = MessageField(config.errMsg)
        /\ MessageKey(config.errMsg) = <<>> /\ MessageField(config.errMsg) = <<>> =>
               out = <<"u","n","k","n","o","w","n">>
    /\ pc = "ExecuteTemplate" /\ err # Nil /\ err.kind = "StrictModeError" =>
           err.Variable # <<>>

\* the field called field of a string: the violation carries an empty variable
ViolationWithoutKey ==
    /\ pc = "ExecuteTemplate"
    /\ strictTemplate.StrictMode
    /\ config.content = <<"{","{",".","a","p","p",".","f","i","e","l","d","}","}">>
    /\ <<"a","p","p">> \in DOMAIN Deref(heap, allValues).m
    /\ Deref(heap, allValues).m[<<"a","p","p">>] = VStr(<<"x">>)
    /\ err = StrictModeError(<<>>, strictTemplate.name)

\* the messages of the tests are answered as the tests expect
ViolationKeyExtracted ==
    /\ pc = "extractVariableFromError"
    /\ config.errMsg = <<"t","e","m","p","l","a","t","e",":"," ","t","e","s","t",":","1",":","2",":"," ","e","x","e","c","u","t","i","n","g"," ","\"","t","e","s","t","\""," ","a","t"," ","<",".","a","p","p",".","m","i","s","s","i","n","g",">",":"," ","c","a","n","'","t"," ","e","v","a","l","u","a","t","e"," ","f","i","e","l","d"," ","m","i","s","s","i","n","g"," ","i","n"," ","t","y","p","e"," ","m","a","p","[","s","t","r","i","n","g","]","i","n","t","e","r","f","a","c","e"," ","{","}">>
    /\ out = <<"m","i","s","s","i","n","g">>

\* C14: in strict mode a reference to a key that the data lacks fails the
\* execution also where it is the argument of default or is piped into
\* upper; in lenient mode the template with default succeeds and its result
\* is not empty.
StrictFailsBehindFunctions ==
    pc = "ExecuteTemplate" /\ <<"u","n","d","e","f","i","n","e","d">> \notin DOMAIN Deref(heap, allValues).m =>
        /\ /\ strictTemplate.StrictMode
           /\ config.content \in {<<"{","{","d","e","f","a","u","l","t"," ","\"","f","a","l","l","b","a","c","k","\""," ",".","u","n","d","e","f","i","n","e","d","}","}">>, <<"{","{",".","u","n","d","e","f","i","n","e","d"," ","|"," ","u","p","p","e","r","}","}">>}
           => err # Nil /\ out = <<>>
        /\ ~strictTemplate.StrictMode /\ config.content = <<"{","{","d","e","f","a","u","l","t"," ","\"","f","a","l","l","b","a","c","k","\""," ",".","u","n","d","e","f","i","n","e","d","}","}">>
           => err = Nil /\ out # <<>>

StrictDefaultFails ==
    /\ pc = "ExecuteTemplate"
    /\ strictTemplate.StrictMode
    /\ config.content = <<"{","{","d","e","f","a","u","l","t"," ","\"","f","a","l","l","b","a","c","k","\""," ",".","u","n","d","e","f","i","n","e","d","}","}">>
    /\ Deref(heap, allValues) = LMap(<<"n","a","m","e">> :> VStr(<<"w","o","r","l","d">>))
    /\ err = StrictModeError(<<"u","n","d","e","f","i","n","e","d">>, strictTemplate.name)

\* the same template and data in lenient mode
LenientDefaultFallsBack ==
    /\ pc = "ExecuteTemplate"
    /\ ~strictTemplate.StrictMode
    /\ config.content = <<"{","{","d","e","f","a","u","l","t"," ","\"","f","a","l","l","b","a","c","k","\""," ",".","u","n","d","e","f","i","n","e","d","}","}">>
    /\ Deref(heap, allValues) = LMap(<<"n","a","m","e">> :> VStr(<<"w","o","r","l","d">>))
    /\ err = Nil
    /\ out = <<"f","a","l","l","b","a","c","k">>

\* what a wrapper of the other mode returns for the same template and data
OtherMode ==
  ExecuteTemplate(heap,
                  ParseTemplate(NewStrictTemplate(strictTemplate.name,
                                                  ~strictTemplate.StrictMode),
                                config.content).st,
                  allValues)

\* C24: strict mode only removes successful runs. Where the strict wrapper's
\* ExecuteTemplate succeeds, the lenient wrapper's succeeds on the same
\* template and data with the same text; where the lenient one fails, the
\* strict one fails too
StrictOnlyRemovesRuns ==
  pc = "ExecuteTemplate" =>
    /\ strictTemplate.StrictMode /\ err = Nil =>
         OtherMode.err = Nil /\ OtherMode.result = out
    /\ ~strictTemplate.StrictMode /\ err # Nil => OtherMode.err # Nil

\* a strict run that succeeds on a template with lookups, and the lenient run
StrictSuccessLenientSuccess ==
  /\ pc = "ExecuteTemplate"
  /\ strictTemplate.StrictMode
  /\ config.content = <<"H","e","l","l","o"," ","{","{",".","n","a","m","e","}","}","!">>
  /\ err = Nil
  /\ out = <<"H","e","l","l","o"," ","w","o","r","l","d","!">>
  /\ OtherMode = [result |-> out, err |-> Nil]
\* a lenient run that fails, and the strict run fails with its own error
LenientFailureStrictFailure ==
  /\ pc = "ExecuteTemplate"
  /\ ~strictTemplate.StrictMode
  /\ config.content = <<"{","{",".","n","a","m","e",".","f","i","r","s","t","}","}">>
  /\ err # Nil
  /\ OtherMode.err # Nil
  /\ OtherMode.err.kind = "StrictModeError"
\* C22: the function table that GetTemplateFuncs returns never holds the
\* functions env and expandenv; it always holds the eleven format
\* conversions, bound to the implementations of this repository, and the
\* four placeholders include, tpl, required and lookup.
FuncTableSafe ==
    pc = "GetTemplateFuncs" =>
        /\ <<"e","n","v">> \notin DOMAIN out /\ <<"e","x","p","a","n","d","e","n","v">> \notin DOMAIN out
        /\ \A n \in {<<"t","o","Y","a","m","l">>, <<"m","u","s","t","T","o","Y","a","m","l">>, <<"t","o","Y","a","m","l","P","r","e","t","t","y">>, <<"f","r","o","m","Y","a","m","l">>, <<"f","r","o","m","Y","a","m","l","A","r","r","a","y">>,
                     <<"t","o","J","s","o","n">>, <<"m","u","s","t","T","o","J","s","o","n">>, <<"f","r","o","m","J","s","o","n">>, <<"f","r","o","m","J","s","o","n","A","r","r","a","y">>,
                     <<"t","o","T","o","m","l">>, <<"f","r","o","m","T","o","m","l">>} :
               n \in DOMAIN out /\ out[n].pkg = "template" /\ out[n].fn # <<"n","o","t"," ","i","m","p","l","e","m","e","n","t","e","d">>
        /\ \A n \in {<<"i","n","c","l","u","d","e">>, <<"t","p","l">>, <<"r","e","q","u","i","r","e","d">>, <<"l","o","o","k","u","p">>} :
               n \in DOMAIN out /\ out[n] = [pkg |-> "template", fn |-> <<"n","o","t"," ","i","m","p","l","e","m","e","n","t","e","d">>]

\* sprig's own toJson is replaced, its other functions are kept
FuncTableReturned ==
    /\ pc = "GetTemplateFuncs"
    /\ SprigTxtFuncMap[<<"t","o","J","s","o","n">>].pkg = "sprig"
    /\ out[<<"t","o","J","s","o","n">>] = [pkg |-> "template", fn |-> <<"t","o","J","S","O","N">>]
    /\ out[<<"q","u","o","t","e">>].pkg = "sprig"
    /\ TemplateFuncs \subseteq DOMAIN out
-----------------------------------------------------------------------------
(* Spec: one run of TemplateProcessor.Process, from the configuration the  *)
(* command line gave to the return of Process, on a file system that holds *)
(* values files, single templates and template directories.                *)

\* the file system before the run
BaseFiles ==
    (<<".">> :> Directory)
    @@ (<<"v","a","l","u","e","s",".","y","a","m","l">> :> RegularFile(DatabaseYaml))
    @@ (<<"a","p","p",".","y","a","m","l">> :> RegularFile(AppYaml))
    @@ (<<"b","a","d",".","y","a","m","l">> :> RegularFile(<<"d","a","t","a","b","a","s","e",":"," ","[">>))
    @@ (<<"d","b",".","t","p","l">> :> RegularFile(<<"{","{",".","d","a","t","a","b","a","s","e",".","h","o","s","t","}","}",":","{","{",".","d","a","t","a","b","a","s","e",".","p","a","s","s","w","o","r","d","}","}">>))
    @@ (<<"a","p","p",".","t","p","l">> :> RegularFile(<<"A","p","p",":"," ","{","{",".","a","p","p",".","n","a","m","e","}","}","\n","D","e","b","u","g",":"," ","{","{",".","d","e","b","u","g","}","}">>))
    @@ (<<"t","e","m","p","l","a","t","e","s">> :> Directory)
    @@ (<<"t","e","m","p","l","a","t","e","s","/","a",".","t","p","l">> :> RegularFile(<<"H","e","l","l","o"," ","{","{",".","a","p","p",".","n","a","m","e","}","}">>))
    @@ (<<"t","e","m","p","l","a","t","e","s","/","b",".","T","P","L">> :> RegularFile(<<"{","{",".","a","p","p","E","n","v","}","}">>))
    @@ (<<"t","e","m","p","l","a","t","e","s","/","n","o","t","e","s",".","t","x","t">> :> RegularFile(<<"n","o","t","e","s">>))
    @@ (<<"t","e","m","p","l","a","t","e","s","/","s","r","v">> :> Directory)
    @@ (<<"t","e","m","p","l","a","t","e","s","/","s","r","v","/","{","{",".","a","p","p",".","n","a","m","e","}","}">> :> Directory)
    @@ (<<"t","e","m","p","l","a","t","e","s","/","s","r","v","/","{","{",".","a","p","p",".","n","a","m","e","}","}","/","c","o","n","f","i","g",".","t","p","l">> :> RegularFile(<<"p","o","r","t","=","{","{",".","d","a","t","a","b","a","s","e",".","p","o","r","t","}","}">>))
    @@ (<<"b","r","o","k","e","n">> :> Directory)
    @@ (<<"b","r","o","k","e","n","/","a",".","t","p","l">> :> RegularFile(<<"f","i","r","s","t">>))
    @@ (<<"b","r","o","k","e","n","/","b",".","t","p","l">> :> RegularFile(<<"{","{",".","n","a","m","e">>))
    @@ (<<"b","r","o","k","e","n","/","c",".","t","p","l">> :> RegularFile(<<"l","a","s","t">>))
    @@ (<<"d","o","c","s">> :> Directory)
    @@ (<<"d","o","c","s","/","r","e","a","d","m","e",".","t","x","t">> :> RegularFile(<<"r","e","a","d"," ","m","e">>))
\* the outputs of an earlier run
OldOutputs ==
    (<<"o","u","t",".","t","x","t">> :> RegularFile(<<"o","l","d">>))
    @@ (<<"o","u","t">> :> Directory)
    @@ (<<"o","u","t","/","a">> :> RegularFile(<<"o","l","d">>))
FileSystems == {BaseFiles, OldOutputs @@ BaseFiles}

\* -values, -set, -template and -output of the command line; the environment
ValuesFiles == {<<>>, <<"v","a","l","u","e","s",".","y","a","m","l">>, <<"a","p","p",".","y","a","m","l">>, <<"b","a","d",".","y","a","m","l">>, <<"m","i","s","s","i","n","g",".","y","a","m","l">>}
SetValueLists ==
    {<<>>, <<<<"d","a","t","a","b","a","s","e",".","p","a","s","s","w","o","r","d","=","s","e","c","r","e","t">>>>, <<<<"d","e","b","u","g","=","t","r","u","e">>>>,
     <<<<"a","p","p",".","n","a","m","e","=","m","y","a","p","p">>, <<"d","a","t","a","b","a","s","e",".","p","o","r","t","=","1">>>>, <<<<"d","e","b","u","g">>>>}
TemplatePaths ==
    {<<<<"d","b",".","t","p","l">>, <<"o","u","t",".","t","x","t">>>>, <<<<"a","p","p",".","t","p","l">>, <<"o","u","t",".","t","x","t">>>>, <<<<"t","e","m","p","l","a","t","e","s">>, <<"o","u","t">>>>,
     <<<<"b","r","o","k","e","n">>, <<"o","u","t">>>>, <<<<"d","o","c","s">>, <<"o","u","t">>>>, <<<<"m","i","s","s","i","n","g",".","t","p","l">>, <<"o","u","t",".","t","x","t">>>>}
Environments == {<<>>, <<<<"A","P","P","_","E","N","V","=","p","r","o","d">>>>}

\* config.NewConfig(templateFile, valuesFile, outputFile, setValues, _, strictMode)
Init ==
    /\ \E v \in ValuesFiles, s \in SetValueLists, t \in TemplatePaths, strict \in BOOLEAN :
          config = [TemplateFile |-> t[1], ValuesFile |-> v, OutputFile |-> t[2],
                    SetValues |-> s, Values |-> VRef(1), StrictMode |-> strict]
    /\ heap = <<EmptyMap>>
    /\ environ \in Environments
    /\ fs \in FileSystems
    /\ pc = "Process"
    /\ yamlValues = Nil /\ envValues = Nil /\ setValues = Nil /\ allValues = Nil
    /\ strictTemplate = Nil /\ out = Nil /\ err = Nil
    /\ templateFiles = <<>> /\ index = 0 /\ templateContent = <<>>

\* Process returns e
Return(e) == pc' = "return" /\ err' = e

LoadYAMLValuesReturned(r) ==
    /\ heap' = r.h
    /\ yamlValues' = r.v
    /\ IF r.err # Nil THEN Return(Errorf(<<"e","r","r","o","r"," ","l","o","a","d","i","n","g"," ","Y","A","M","L"," ","v","a","l","u","e","s">>, r.err))
       ELSE pc' = "LoadEnvValues" /\ err' = Nil
\* a Process that does not look at the error of LoadYAMLValues
LoadYAMLValuesUnchecked(r) ==
  /\ heap' = r.h
  /\ yamlValues' = r.v
  /\ pc' = "LoadEnvValues"
  /\ err' = Nil
ProcessLoadYAMLValuesUnchecked ==
  /\ pc = "Process"
  /\ LoadYAMLValuesUnchecked(LoadYAMLValues(heap, fs, config.ValuesFile))
  /\ UNCHANGED <<config, environ, envValues, setValues, allValues, strictTemplate, out, run>>
ProcessLoadYAMLValues ==
    /\ pc = "Process"
    /\ LoadYAMLValuesReturned(LoadYAMLValues(heap, fs, config.ValuesFile))
    /\ UNCHANGED <<config, environ, envValues, setValues, allValues, strictTemplate, out, run>>

ProcessLoadEnvValues ==
    /\ pc = "LoadEnvValues"
    /\ LoadEnvValuesReturns(LoadEnvValues(heap, environ))
    /\ pc' = "ParseSetValues"
    /\ UNCHANGED <<config, environ, yamlValues, setValues, allValues, strictTemplate, out, err, run>>

ParseSetValuesReturned(r) ==
    /\ heap' = r.h
    /\ setValues' = r.v
    /\ IF r.err # Nil THEN Return(Errorf(<<"e","r","r","o","r"," ","p","a","r","s","i","n","g"," ","s","e","t"," ","v","a","l","u","e","s">>, r.err))
       ELSE pc' = "MergeValues" /\ err' = Nil
ProcessParseSetValues ==
    /\ pc = "ParseSetValues"
    /\ ParseSetValuesReturned(ParseSetValues(heap, config.SetValues))
    /\ UNCHANGED <<config, environ, yamlValues, envValues, allValues, strictTemplate, out, run>>

MergeValuesReturned(r) == heap' = r.h /\ allValues' = r.v
ProcessMergeValues ==
    /\ pc = "MergeValues"
    /\ MergeValuesReturned(MergeValues(heap, yamlValues, envValues, setValues, config.Values))
    /\ pc' = "Stat"
    /\ UNCHANGED <<config, environ, yamlValues, envValues, setValues, strictTemplate, out, err, run>>

StatReturned(r) ==
    IF r.err # Nil THEN Return(Errorf(<<"f","a","i","l","e","d"," ","t","o"," ","s","t","a","t"," ","t","e","m","p","l","a","t","e"," ","p","a","t","h">>, r.err))
    ELSE /\ pc' = IF r.info.kind = "dir" THEN "processDirectory" ELSE "processSingleFile"
         /\ err' = Nil
ProcessStat ==
    /\ pc = "Stat"
    /\ StatReturned(Stat(fs, config.TemplateFile))
    /\ UNCHANGED <<heap, config, environ, yamlValues, envValues, setValues, allValues,
                   strictTemplate, out, run>>

\* the file processTemplateFile is working on
templateFile == templateFiles[index]

FindTemplateFilesReturned(r) ==
    /\ templateFiles' = r.files
    /\ IF r.err # Nil THEN Return(r.err) /\ index' = index
       ELSE IF Len(r.files) = 0 THEN Return(Nil) /\ index' = index
       ELSE pc' = "processTemplateFile" /\ err' = Nil /\ index' = 1
\* processDirectory up to the first file: findTemplateFiles
processDirectory ==
    /\ pc = "processDirectory"
    /\ FindTemplateFilesReturned(findTemplateFiles(heap, fs, config, allValues))
    /\ UNCHANGED <<heap, config, environ, yamlValues, envValues, setValues, allValues,
                   strictTemplate, out, fs, templateContent>>

\* processSingleFile up to its call of processTemplateFile
processSingleFile ==
    /\ pc = "processSingleFile"
    /\ templateFiles' = <<File(config.TemplateFile, filepathBase(config.TemplateFile),
                               config.OutputFile)>>
    /\ index' = 1
    /\ pc' = "processTemplateFile"
    /\ UNCHANGED <<heap, config, environ, yamlValues, envValues, setValues, allValues,
                   strictTemplate, out, err, fs, templateContent>>

\* processTemplateFile: os.ReadFile(templateFile.SourcePath)
ReadFileReturned(r) ==
    /\ templateContent' = r.data
    /\ IF r.err # Nil
       THEN Return(Errorf(<<"f","a","i","l","e","d"," ","t","o"," ","r","e","a","d"," ","t","e","m","p","l","a","t","e"," ","f","i","l","e"," ">> \o templateFile.SourcePath, r.err))
       ELSE pc' = "ParseTemplate" /\ err' = Nil
processTemplateFileRead ==
    /\ pc = "processTemplateFile"
    /\ ReadFileReturned(ReadFile(fs, templateFile.SourcePath))
    /\ UNCHANGED <<heap, config, environ, yamlValues, envValues, setValues, allValues,
                   strictTemplate, out, fs, templateFiles, index>>

\* processTemplateFile: NewStrictTemplate and ParseTemplate
ParseContentReturned(r) ==
    /\ strictTemplate' = r.st
    /\ IF r.err # Nil
       THEN Return(Errorf(<<"f","a","i","l","e","d"," ","t","o"," ","p","a","r","s","e"," ","t","e","m","p","l","a","t","e"," ">> \o templateFile.SourcePath, r.err))
       ELSE pc' = "ensureOutputDir" /\ err' = Nil
processTemplateFileParse ==
    /\ pc = "ParseTemplate"
    /\ ParseContentReturned(
          ParseTemplate(NewStrictTemplate(filepathBase(templateFile.SourcePath),
                                          config.StrictMode),
                        templateContent))
    /\ UNCHANGED <<heap, config, environ, yamlValues, envValues, setValues, allValues,
                   out, run>>

\* processTemplateFile: ensureOutputDir(templateFile.OutputPath)
EnsureOutputDirReturned(r) ==
    /\ fs' = r.fs
    /\ IF r.err # Nil
       THEN Return(Errorf(<<"f","a","i","l","e","d"," ","t","o"," ","c","r","e","a","t","e"," ","o","u","t","p","u","t"," ","d","i","r","e","c","t","o","r","y"," ","f","o","r"," ">>
                              \o templateFile.OutputPath, r.err))
       ELSE pc' = "ExecuteTemplate" /\ err' = Nil
ensureOutputDir ==
    /\ pc = "ensureOutputDir"
    /\ EnsureOutputDirReturned(MkdirAll(fs, filepathDir(templateFile.OutputPath)))
    /\ UNCHANGED <<heap, config, environ, yamlValues, envValues, setValues, allValues,
                   strictTemplate, out, templateFiles, index, templateContent>>

\* a processDirectory that goes on to the next file when a template fails
\* to execute
ExecuteContentSkipped(r) ==
    /\ out' = r.result
    /\ IF r.err = Nil THEN pc' = "Create" /\ err' = Nil /\ index' = index
       ELSE IF index < Len(templateFiles)
       THEN /\ pc' = "processTemplateFile" /\ index' = index + 1
            /\ err' = Errorf(<<"f","a","i","l","e","d"," ","t","o"," ","e","x","e","c","u","t","e"," ","t","e","m","p","l","a","t","e"," ">> \o templateFile.SourcePath, r.err)
       ELSE /\ Return(Errorf(<<"f","a","i","l","e","d"," ","t","o"," ","e","x","e","c","u","t","e"," ","t","e","m","p","l","a","t","e"," ">> \o templateFile.SourcePath, r.err))
            /\ index' = index
processTemplateFileExecuteSkipping ==
    /\ pc = "ExecuteTemplate"
    /\ ExecuteContentSkipped(ExecuteTemplate(heap, strictTemplate, allValues))
    /\ UNCHANGED <<heap, config, environ, yamlValues, envValues, setValues, allValues,
                   strictTemplate, fs, templateFiles, templateContent>>

\* processTemplateFile: ExecuteTemplate(allValues)
ExecuteContentReturned(r) ==
    /\ out' = r.result
    /\ IF r.err = Nil THEN pc' = "Create" /\ err' = Nil
       ELSE IF r.err.kind = "StrictModeError"
       THEN Return(ErrorfText(<<"s","t","r","i","c","t"," ","m","o","d","e"," ","e","r","r","o","r"," ","i","n"," ">> \o templateFile.SourcePath,
                              StrictModeErrorText(r.err)))
       ELSE Return(Errorf(<<"f","a","i","l","e","d"," ","t","o"," ","e","x","e","c","u","t","e"," ","t","e","m","p","l","a","t","e"," ">> \o templateFile.SourcePath, r.err))
processTemplateFileExecute ==
    /\ pc = "ExecuteTemplate"
    /\ ExecuteContentReturned(ExecuteTemplate(heap, strictTemplate, allValues))
    /\ UNCHANGED <<heap, config, environ, yamlValues, envValues, setValues, allValues,
                   strictTemplate, run>>

\* processTemplateFile: os.Create(templateFile.OutputPath)
CreateReturned(r) ==
    /\ fs' = r.fs
    /\ IF r.err # Nil
       THEN Return(Errorf(<<"f","a","i","l","e","d"," ","t","o"," ","c","r","e","a","t","e"," ","o","u","t","p","u","t"," ","f","i","l","e"," ">> \o templateFile.OutputPath, r.err))
       ELSE pc' = "WriteString" /\ err' = Nil
processTemplateFileCreate ==
    /\ pc = "Create"
    /\ CreateReturned(Create(fs, templateFile.OutputPath))
    /\ UNCHANGED <<heap, config, environ, yamlValues, envValues, setValues, allValues,
                   strictTemplate, out, templateFiles, index, templateContent>>

\* processTemplateFile: WriteString(result), and the caller's next step: the
\* next file of the directory, or the return of Process
processTemplateFileWrite ==
    /\ pc = "WriteString"
    /\ fs' = WriteString(fs, templateFile.OutputPath, out)
    /\ IF index < Len(templateFiles)
       THEN pc' = "processTemplateFile" /\ index' = index + 1 /\ err' = err
       ELSE Return(Nil) /\ index' = index
    /\ UNCHANGED <<heap, config, environ, yamlValues, envValues, setValues, allValues,
                   strictTemplate, out, templateFiles, templateContent>>

Next ==
    \/ ProcessLoadYAMLValues
    \/ ProcessLoadEnvValues
    \/ ProcessParseSetValues
    \/ ProcessMergeValues
    \/ ProcessStat
    \/ processDirectory
    \/ processSingleFile
    \/ processTemplateFileRead
    \/ processTemplateFileParse
    \/ ensureOutputDir
    \/ processTemplateFileExecute
    \/ processTemplateFileCreate
    \/ processTemplateFileWrite

Spec == Init /\ [][Next]_vars

-----------------------------------------------------------------------------
(* Properties of a run of Process *)

\* the tree below key p of the map v, or Nil if v holds no tree there
SubtreeAt(v, p) ==
    IF /\ v.t = "ref"
       /\ p \in DOMAIN heap[v.a].m
       /\ heap[v.a].m[p].t = "ref"
       /\ heap[heap[v.a].m[p].a].kind \in {"map", "ymap"}
    THEN heap[heap[v.a].m[p].a].m
    ELSE Nil

\* the parents under which the values file and the overrides both define keys
SharedParents ==
    {p \in DOMAIN heap[yamlValues.a].m \cap DOMAIN heap[setValues.a].m :
        SubtreeAt(yamlValues, p) # Nil /\ SubtreeAt(setValues, p) # Nil}

\* C3: through Process, when the values file defines a nested tree and a
\* --set override defines a key under the same parent, the merged tree
\* given to the templates holds under that parent the keys that came from
\* the file and the key that came from the override.
ProcessMergesFileAndOverride ==
    allValues # Nil =>
        \A p \in SharedParents :
            /\ SubtreeAt(allValues, p) # Nil
            /\ DOMAIN SubtreeAt(yamlValues, p) \subseteq DOMAIN SubtreeAt(allValues, p)
            /\ DOMAIN SubtreeAt(setValues, p) \subseteq DOMAIN SubtreeAt(allValues, p)

\* the run with database: {host, port} in the values file and the override
\* database.password=secret has returned: the templates were given a
\* database tree that holds the password only
ProcessDropsFileKeys ==
    /\ pc = "return"
    /\ config.ValuesFile = <<"v","a","l","u","e","s",".","y","a","m","l">>
    /\ config.SetValues = <<<<"d","a","t","a","b","a","s","e",".","p","a","s","s","w","o","r","d","=","s","e","c","r","e","t">>>>
    /\ config.TemplateFile = <<"d","b",".","t","p","l">> /\ ~config.StrictMode
    /\ Deref(heap, yamlValues)
         = LMap(<<"d","a","t","a","b","a","s","e">> :> LYMap(<<"h","o","s","t">> :> VStr(<<"l","o","c","a","l","h","o","s","t">>) @@ <<"p","o","r","t">> :> VInt(5432)))
    /\ environ = <<>>
    /\ Deref(heap, allValues) = LMap(<<"d","a","t","a","b","a","s","e">> :> LMap(<<"p","a","s","s","w","o","r","d">> :> VStr(<<"s","e","c","r","e","t">>)))
    /\ err = Nil
    /\ fs[<<"o","u","t",".","t","x","t">>] = RegularFile(<<"<","n","o"," ","v","a","l","u","e",">",":","s","e","c","r","e","t">>)

\* path is the file at name or a directory above it
OnPathTo(path, name) ==
    path = filepathClean(name) \/ path = <<".">> \/ HasPrefix(filepathClean(name), path \o <<"/">>)

\* the paths at which the file systems before and after differ
Touched(before, after) ==
    {p \in DOMAIN before \cup DOMAIN after :
        p \notin DOMAIN before \/ p \notin DOMAIN after \/ before[p] # after[p]}

\* one step of a run: an error ends the run, the run goes from a file to the
\* next one only after it wrote the file's output, and it reads and writes
\* for the file it is at only
FailFastStep ==
    /\ pc # "return"
    /\ err' # Nil => pc' = "return"
    /\ index' # index =>
        /\ index' = index + 1
        /\ err' = Nil
        /\ index > 0 => pc = "WriteString" /\ fs'[filepathClean(templateFile.OutputPath)] = RegularFile(out)
    /\ templateContent' # templateContent =>
           fs[templateFile.SourcePath] = RegularFile(templateContent')
    /\ \A p \in Touched(fs, fs') : index > 0 /\ OnPathTo(p, templateFile.OutputPath)

\* after a failed run: the error is the one of the file the run was at, the
\* files before it are written, no file after it is
FailFastReturn ==
    pc = "return" /\ err # Nil /\ index > 0 =>
        /\ \/ Contains(ErrorMessage(err), templateFile.SourcePath)
           \/ Contains(ErrorMessage(err), templateFile.OutputPath)
        /\ \A i \in 1..(index - 1) :
               /\ filepathClean(templateFiles[i].OutputPath) \in DOMAIN fs
               /\ fs[filepathClean(templateFiles[i].OutputPath)].kind = "file"
        /\ \A i \in (index + 1)..Len(templateFiles) :
               \/ filepathClean(templateFiles[i].OutputPath) \notin DOMAIN fs
               \/ /\ filepathClean(templateFiles[i].OutputPath) \in DOMAIN OldOutputs
                  /\ fs[filepathClean(templateFiles[i].OutputPath)]
                         = OldOutputs[filepathClean(templateFiles[i].OutputPath)]

\* C15: fail-fast directory run.  The templates of a directory are processed
\* one at a time in the order of the traversal, and the processing stops at
\* the first template that fails: Process returns that template's error and
\* no template after it is read, rendered or written.
FailFastDirectory == []FailFastReturn /\ [][FailFastStep]_vars

\* the second of three templates does not parse: the first is written, the
\* third is not
SecondTemplateFails ==
    /\ pc = "return"
    /\ config.TemplateFile = <<"b","r","o","k","e","n">>
    /\ Len(templateFiles) = 3 /\ index = 2
    /\ err # Nil /\ err.kind = "wrapped"
    /\ err.text = <<"f","a","i","l","e","d"," ","t","o"," ","p","a","r","s","e"," ","t","e","m","p","l","a","t","e"," ","b","r","o","k","e","n","/","b",".","t","p","l">>
    /\ fs[<<"o","u","t","/","a">>] = RegularFile(<<"f","i","r","s","t">>)
    /\ <<"o","u","t","/","b">> \notin DOMAIN fs /\ <<"o","u","t","/","c">> \notin DOMAIN fs

\* the value the merged tree holds at app.name, Missing if it holds none
AppName ==
    LET root == heap[allValues.a].m
    IN  IF <<"a","p","p">> \in DOMAIN root /\ root[<<"a","p","p">>].t = "ref"
           /\ <<"n","a","m","e">> \in DOMAIN heap[root[<<"a","p","p">>].a].m
        THEN heap[root[<<"a","p","p">>].a].m[<<"n","a","m","e">>]
        ELSE Missing

\* the run is in processDirectory for the directory templates, whose file
\* srv/{{.app.name}}/config.tpl has a templated path
TemplatedRun == config.TemplateFile = <<"t","e","m","p","l","a","t","e","s">> /\ allValues # Nil

\* C16: templated paths in directory mode.  The relative path of every
\* template found is rendered against the merged values, in the configured
\* mode, before the content of any template is rendered; in strict mode a
\* path that refers to an undefined key fails the run with a "strict mode
\* error in path template" error and no output file is written at all; in
\* lenient mode the same run succeeds.
TemplatedPaths ==
    TemplatedRun =>
        /\ pc \in {"processTemplateFile", "ParseTemplate", "ensureOutputDir",
                   "ExecuteTemplate", "Create", "WriteString"} =>
            /\ Len(templateFiles) = 3
            /\ templateFiles[3] =
                   File(<<"t","e","m","p","l","a","t","e","s","/","s","r","v","/","{","{",".","a","p","p",".","n","a","m","e","}","}","/","c","o","n","f","i","g",".","t","p","l">>, <<"s","r","v","/","{","{",".","a","p","p",".","n","a","m","e","}","}","/","c","o","n","f","i","g",".","t","p","l">>,
                        <<"o","u","t","/","s","r","v","/">> \o (IF AppName.t = "string" THEN AppName.s ELSE <<"<","n","o"," ","v","a","l","u","e",">">>)
                            \o <<"/","c","o","n","f","i","g">>)
            /\ AppName.t = "string" \/ ~config.StrictMode
            /\ index = 1 /\ pc = "processTemplateFile" => fs \in FileSystems
        /\ pc = "return" /\ AppName = Missing /\ config.StrictMode =>
            /\ err # Nil
            /\ Contains(ErrorMessage(err), <<"s","t","r","i","c","t"," ","m","o","d","e"," ","e","r","r","o","r"," ","i","n"," ","p","a","t","h"," ","t","e","m","p","l","a","t","e">>)
            /\ templateFiles = <<>> /\ index = 0
            /\ fs \in FileSystems
        /\ pc = "return" /\ AppName = Missing /\ ~config.StrictMode =>
            /\ err = Nil
            /\ fs[<<"o","u","t","/","s","r","v","/","<","n","o"," ","v","a","l","u","e",">","/","c","o","n","f","i","g">>].kind = "file"

StrictPathFails ==
    /\ pc = "return"
    /\ TemplatedRun /\ config.StrictMode /\ AppName = Missing
    /\ ErrorMessage(err) = <<"e","r","r","o","r"," ","w","a","l","k","i","n","g"," ","t","e","m","p","l","a","t","e"," ","d","i","r","e","c","t","o","r","y",":"," ","f","a","i","l","e","d"," ","t","o"," ","p","r","o","c","e","s","s"," ","p","a","t","h"," ","t","e","m","p","l","a","t","e"," ","'","s","r","v","/","{","{",".","a","p","p",".","n","a","m","e","}","}","/","c","o","n","f","i","g",".","t","p","l","'",":"," ","s","t","r","i","c","t"," ","m","o","d","e"," ","e","r","r","o","r"," ","i","n"," ","p","a","t","h"," ","t","e","m","p","l","a","t","e"," ","'","s","r","v","/","{","{",".","a","p","p",".","n","a","m","e","}","}","/","c","o","n","f","i","g",".","t","p","l","'",":"," ","u","n","d","e","f","i","n","e","d"," ","v","a","r","i","a","b","l","e"," ","'","a","p","p","'"," ","i","n"," ","t","e","m","p","l","a","t","e"," ","'","p","a","t","h","'"," ","(","s","t","r","i","c","t"," ","m","o","d","e"," ","e","n","a","b","l","e","d",")">>
    /\ fs = BaseFiles

\* the same run in lenient mode, and a run with the key defined
LenientPathRenders ==
    /\ pc = "return"
    /\ TemplatedRun /\ ~config.StrictMode /\ AppName = Missing
    /\ err = Nil
    /\ fs[<<"o","u","t","/","s","r","v","/","<","n","o"," ","v","a","l","u","e",">","/","c","o","n","f","i","g">>] = RegularFile(<<"p","o","r","t","=","<","n","o"," ","v","a","l","u","e",">">>)
DefinedPathRenders ==
    /\ pc = "return"
    /\ TemplatedRun /\ config.StrictMode /\ AppName = VStr(<<"m","y","a","p","p">>)
    /\ err = Nil
    /\ fs[<<"o","u","t","/","s","r","v","/","m","y","a","p","p","/","c","o","n","f","i","g">>] = RegularFile(<<"p","o","r","t","=","1">>)

\* Process returned the error of LoadYAMLValues
LoadFailed ==
    pc = "return" /\ err # Nil /\ err.kind = "wrapped" /\ err.text = <<"e","r","r","o","r"," ","l","o","a","d","i","n","g"," ","Y","A","M","L"," ","v","a","l","u","e","s">>

\* LoadYAMLValues returned an empty tree for the empty path, and no tree and
\* an error that carries its cause for a file that cannot be read or parsed
LoadYAMLValuesOutcome ==
    /\ config.ValuesFile = <<>> /\ pc # "Process" =>
        /\ ~LoadFailed
        /\ yamlValues # Nil /\ heap[yamlValues.a] = EmptyMap
    /\ config.ValuesFile \in {<<"m","i","s","s","i","n","g",".","y","a","m","l">>, <<"b","a","d",".","y","a","m","l">>} /\ pc # "Process" => LoadFailed
    /\ LoadFailed =>
        /\ yamlValues = Nil
        /\ err.cause.kind = "wrapped"
        /\ err.cause.cause.kind = IF config.ValuesFile \in DOMAIN fs THEN "yaml" ELSE "PathError"

\* C17: file source.  LoadYAMLValues with an empty path returns an empty tree
\* and no error; with a non-empty path, a read failure or a parse failure
\* returns no tree and an error that identifies the failing file and carries
\* the underlying cause.
LoadYAMLValuesIdentifiesFile ==
    /\ LoadYAMLValuesOutcome
    /\ LoadFailed => Contains(ErrorMessage(err), config.ValuesFile)

\* the values file is read but is no YAML: the error does not name it
ParseFailureUnnamed ==
    /\ LoadFailed
    /\ config.ValuesFile = <<"b","a","d",".","y","a","m","l">>
    /\ fs[<<"b","a","d",".","y","a","m","l">>] = RegularFile(<<"d","a","t","a","b","a","s","e",":"," ","[">>)
    /\ yamlValues = Nil
    /\ err.cause.text = <<"f","a","i","l","e","d"," ","t","o"," ","p","a","r","s","e"," ","Y","A","M","L">> /\ err.cause.cause.kind = "yaml"
    /\ ~Contains(ErrorMessage(err), <<"b","a","d",".","y","a","m","l">>)

\* the values file cannot be read: the error names it
ReadFailureNamed ==
    /\ LoadFailed
    /\ ErrorMessage(err) = <<"e","r","r","o","r"," ","l","o","a","d","i","n","g"," ","Y","A","M","L"," ","v","a","l","u","e","s",":"," ","f","a","i","l","e","d"," ","t","o"," ","r","e","a","d"," ","v","a","l","u","e","s"," ","f","i","l","e",":"," ","o","p","e","n"," ","m","i","s","s","i","n","g",".","y","a","m","l",":"," ","n","o"," ","s","u","c","h"," ","f","i","l","e"," ","o","r"," ","d","i","r","e","c","t","o","r","y">>

\* the run of the documented example: the values file app.yaml, the override
\* debug=true and the template app.tpl
ExampleRun ==
    /\ config.ValuesFile = <<"a","p","p",".","y","a","m","l">>
    /\ fs[<<"a","p","p",".","y","a","m","l">>] = RegularFile(<<"a","p","p",":","\n"," "," ","n","a","m","e",":"," ","t","e","s","t","-","a","p","p","\n"," "," ","v","e","r","s","i","o","n",":"," ","1",".","0",".","0","\n">>)
    /\ config.SetValues = <<<<"d","e","b","u","g","=","t","r","u","e">>>>
    /\ config.TemplateFile = <<"a","p","p",".","t","p","l">>
    /\ fs[<<"a","p","p",".","t","p","l">>] = RegularFile(<<"A","p","p",":"," ","{","{",".","a","p","p",".","n","a","m","e","}","}","\n","D","e","b","u","g",":"," ","{","{",".","d","e","b","u","g","}","}">>)
    /\ config.OutputFile = <<"o","u","t",".","t","x","t">>

\* C18: end to end.  With the value file {app: {name: "test-app", version:
\* "1.0.0"}}, the override debug=true and a template that prints app.name
\* and debug, Process writes the output "App: test-app\nDebug: true": the
\* override is inferred to be a boolean, and the nested value of the file is
\* read through the merged tree.
EndToEnd ==
    ExampleRun /\ pc = "return" =>
        /\ err = Nil
        /\ fs[<<"o","u","t",".","t","x","t">>] = RegularFile(<<"A","p","p",":"," ","t","e","s","t","-","a","p","p","\n","D","e","b","u","g",":"," ","t","r","u","e">>)
        /\ heap[allValues.a].m[<<"d","e","b","u","g">>] = VBool(TRUE)
        /\ heap[heap[allValues.a].m[<<"a","p","p">>].a].m[<<"n","a","m","e">>] = VStr(<<"t","e","s","t","-","a","p","p">>)

EndToEndStrict ==
    /\ ExampleRun /\ pc = "return"
    /\ config.StrictMode
    /\ OldOutputs[<<"o","u","t",".","t","x","t">>] = RegularFile(<<"o","l","d">>)
    /\ fs = (<<"o","u","t",".","t","x","t">> :> RegularFile(<<"A","p","p",":"," ","t","e","s","t","-","a","p","p","\n","D","e","b","u","g",":"," ","t","r","u","e">>)) @@ OldOutputs @@ BaseFiles
    /\ err = Nil

\* findTemplateFiles returned templateFiles for the directory of the run
Discovered ==
    /\ config.TemplateFile \in DOMAIN fs /\ fs[config.TemplateFile].kind = "dir"
    /\ index >= 1 \/ (pc = "return" /\ err = Nil /\ allValues # Nil)

\* the regular files below the template directory whose name ends in .tpl,
\* in capitals or small letters
TemplatesBelow ==
    {p \in DOMAIN fs :
        /\ fs[p].kind = "file"
        /\ HasPrefix(p, config.TemplateFile \o <<"/">>)
        /\ Len(p) >= 4
        /\ ToLower(SubSeq(p, Len(p) - 3, Len(p))) = <<".","t","p","l">>}

\* the relative path of a template as the merged values render it
RenderedPath(relative) ==
    IF relative = <<"s","r","v","/","{","{",".","a","p","p",".","n","a","m","e","}","}","/","c","o","n","f","i","g",".","t","p","l">>
    THEN <<"s","r","v","/">> \o (IF AppName.t = "string" THEN AppName.s ELSE <<"<","n","o"," ","v","a","l","u","e",">">>) \o <<"/","c","o","n","f","i","g",".","t","p","l">>
    ELSE relative

\* findTemplateFiles returns exactly the templates below the directory, with
\* their paths relative to it
DiscoveryExact ==
    Discovered =>
        /\ {templateFiles[i].SourcePath : i \in DOMAIN templateFiles} = TemplatesBelow
        /\ Len(templateFiles) = Cardinality(TemplatesBelow)
        /\ \A i \in DOMAIN templateFiles :
               config.TemplateFile \o <<"/">> \o templateFiles[i].RelativePath
                   = templateFiles[i].SourcePath

\* C19: template discovery.  findTemplateFiles returns exactly the files
\* that are no directories, lie under the template directory and have a name
\* that ends in .tpl, compared without regard to case; the output path of
\* each is the output directory joined with the rendered relative path
\* without the template extension, so no output path ends in the template
\* extension.
TemplateDiscovery ==
    /\ DiscoveryExact
    /\ Discovered =>
           \A i \in DOMAIN templateFiles :
               /\ templateFiles[i].OutputPath =
                      config.OutputFile \o <<"/">>
                          \o SliceTo(RenderedPath(templateFiles[i].RelativePath),
                                     Len(RenderedPath(templateFiles[i].RelativePath)) - 4)
               /\ ~HasSuffix(ToLower(templateFiles[i].OutputPath), <<".","t","p","l">>)

\* a template whose extension is in capitals keeps it in its output path
CapitalExtensionKept ==
    /\ Discovered
    /\ config.TemplateFile = <<"t","e","m","p","l","a","t","e","s">>
    /\ fs[<<"t","e","m","p","l","a","t","e","s","/","b",".","T","P","L">>].kind = "file"
    /\ templateFiles[2] = File(<<"t","e","m","p","l","a","t","e","s","/","b",".","T","P","L">>, <<"b",".","T","P","L">>, <<"o","u","t","/","b",".","T","P","L">>)

\* with the extension in small letters the output path is as documented
SmallExtensionRemoved ==
    Discovered =>
        \A i \in DOMAIN templateFiles :
            HasSuffix(templateFiles[i].SourcePath, <<".","t","p","l">>) =>
                /\ templateFiles[i].OutputPath =
                       config.OutputFile \o <<"/">>
                           \o SliceTo(RenderedPath(templateFiles[i].RelativePath),
                                      Len(RenderedPath(templateFiles[i].RelativePath)) - 4)
                /\ ~HasSuffix(ToLower(templateFiles[i].OutputPath), <<".","t","p","l">>)

-----------------------------------------------------------------------------
(* Properties of the order of merging *)

\* MergeValues was called with two trees only: A, the overrides, and then B,
\* the values of the config
TwoTrees ==
    /\ pc = "done"
    /\ config.Values # Nil
    /\ out.heap[yamlValues.a].m = <<>> /\ out.heap[envValues.a].m = <<>>

\* the tree that merging first and then second into an empty map gives
MergedInOrder(h, first, second) ==
    Deref(MergeValues(h, first, second, Nil, Nil).h, MergeValues(h, first, second, Nil, Nil).v)

\* the orders in which a range over a map with the keys S can visit them
KeyOrders(S) ==
    {o \in [1..Cardinality(S) -> S] : \A i, j \in DOMAIN o : o[i] = o[j] => i = j}

\* the same, with the keys of the two trees visited in the orders ka and kb
MergedInKeyOrder(h, a, b, ka, kb) ==
    Deref(deepMergeKeys(deepMergeKeys(Append(h, EmptyMap), Len(h) + 1, a, ka),
                        Len(h) + 1, b, kb),
          VRef(Len(h) + 1))

\* merging the same trees in the same order gives the same tree, in whatever
\* order the keys of each are visited
Deterministic ==
    /\ Deref(heap, allValues) = MergedInOrder(out.heap, setValues, config.Values)
    /\ \A ka \in KeyOrders(DOMAIN out.heap[setValues.a].m),
          kb \in KeyOrders(DOMAIN out.heap[config.Values.a].m) :
           MergedInKeyOrder(out.heap, setValues.a, config.Values.a, ka, kb)
               = Deref(heap, allValues)

\* both trees define some key
Overlapping ==
    DOMAIN out.heap[setValues.a].m \cap DOMAIN out.heap[config.Values.a].m # {}

\* the maps at a and b hold different values at a key of both, one of them
\* no map[string]any, or their maps at a key of both do
RECURSIVE Conflict(_, _, _)
Conflict(h, a, b) ==
    \E k \in DOMAIN h[a].m \cap DOMAIN h[b].m :
        IF IsMap(h, h[a].m[k]) /\ IsMap(h, h[b].m[k])
        THEN Conflict(h, h[a].m[k].a, h[b].m[k].a)
        ELSE Deref(h, h[a].m[k]) # Deref(h, h[b].m[k])

\* C20 as stated: merging is deterministic and order-sensitive.  For any two trees A
\* and B that both define an overlapping key, merging A then B gives a
\* different result than merging B then A; and merging the same inputs in
\* the same order always gives the same tree.
MergeOrderSensitive ==
    TwoTrees =>
        /\ Deterministic
        /\ Overlapping =>
               MergedInOrder(out.heap, setValues, config.Values)
                   # MergedInOrder(out.heap, config.Values, setValues)

\* C20: merging is deterministic, and the order matters exactly where the two
\* trees hold different values at a key of both
MergeOrderSensitiveOnConflict ==
    TwoTrees =>
        /\ Deterministic
        /\ MergedInOrder(out.heap, setValues, config.Values)
               # MergedInOrder(out.heap, config.Values, setValues)
           <=> Conflict(out.heap, setValues.a, config.Values.a)

\* A and B hold different values at a: the tree merged last decides
OrderDecides ==
    /\ TwoTrees
    /\ Deref(out.heap, setValues) = LMap(KA :> LeafS @@ KB :> LeafS)
    /\ Deref(out.heap, config.Values) = LMap(KA :> LeafC)
    /\ Deref(heap, allValues) = LMap(KA :> LeafC @@ KB :> LeafS)
    /\ MergedInOrder(out.heap, config.Values, setValues) = LMap(KA :> LeafS @@ KB :> LeafS)

\* A and B hold the same value at a, or maps with different keys: the order
\* does not matter
OrderIndifferent ==
    /\ TwoTrees
    /\ Deref(out.heap, setValues) = LMap(KA :> LeafS)
    /\ Deref(out.heap, config.Values) = LMap(KA :> LeafS)
    /\ MergedInOrder(out.heap, config.Values, setValues) = Deref(heap, allValues)
OrderIndifferentNested ==
    /\ TwoTrees
    /\ Deref(out.heap, setValues) = LMap(KA :> LMap(KA :> LeafS))
    /\ Deref(out.heap, config.Values) = LMap(KA :> LMap(KB :> LeafC))
    /\ Deref(heap, allValues) = LMap(KA :> LMap(KA :> LeafS @@ KB :> LeafC))
    /\ MergedInOrder(out.heap, config.Values, setValues) = Deref(heap, allValues)

-----------------------------------------------------------------------------
(* internal/cli: the flag type SetValues, and SpecFlag: calls of Set and of *)
(* String on one flag.  setValues is the flag, config holds its first       *)
(* contents and the values of the calls of Set so far.                      *)

\* a Set that splits its value at the commas
SetSplitting(s, value) == [s |-> s \o Split(value, <<",">>), err |-> Nil]

\* (s *SetValues) Set(value): [s |-> the flag after the call, err]
Set(s, value) == [s |-> Append(s, value), err |-> Nil]

\* (s *SetValues) String()
String(s) == Join(s, <<",">>)

\* number of calls of Set in a run
MaxSetCalls == 3

FlagStrings == {<<>>, <<"k","=","v">>, <<"a","=","1",",","b","=","2">>, <<"a",".","b","=","c">>}
FlagInitials == {<<>>, <<<<"e","x","i","s","t","i","n","g","=","v","a","l","u","e">>>>}

InitFlag ==
    /\ setValues \in FlagInitials
    /\ config = [initial |-> setValues, values |-> <<>>]
    /\ pc = "flag"
    /\ heap = <<>> /\ environ = <<>>
    /\ yamlValues = Nil /\ envValues = Nil /\ allValues = Nil
    /\ strictTemplate = Nil /\ out = Nil /\ err = Nil
    /\ NoRun

SetReturns(r) == setValues' = r.s /\ err' = r.err
SetCall ==
    /\ Len(config.values) < MaxSetCalls
    /\ \E value \in FlagStrings :
        /\ SetReturns(Set(setValues, value))
        /\ config' = [config EXCEPT !.values = Append(@, value)]
    /\ pc' = "Set"
    /\ UNCHANGED <<heap, environ, yamlValues, envValues, allValues, strictTemplate, out, run>>

StringCall ==
    /\ out' = String(setValues)
    /\ pc' = "String"
    /\ UNCHANGED <<heap, config, environ, yamlValues, envValues, setValues, allValues,
                   strictTemplate, err, run>>

NextFlag == SetCall \/ StringCall

SpecFlag == InitFlag /\ [][NextFlag]_vars

\* the strings of s with a comma between each two
RECURSIVE CommaJoined(_)
CommaJoined(s) ==
    IF s = <<>> THEN <<>>
    ELSE IF Len(s) = 1 THEN s[1]
    ELSE CommaJoined(SubSeq(s, 1, Len(s) - 1)) \o <<",">> \o s[Len(s)]

\* C21: after any sequence of calls Set(v1), ..., Set(vn) on a flag that
\* starts with the contents S, the flag holds exactly S followed by v1..vn in
\* the order of the calls, each string as it was given (the empty string and
\* strings with commas too); Set never returns an error, and String() is the
\* stored strings joined by ','.
SetAppendsRaw ==
    /\ setValues = config.initial \o config.values
    /\ err = Nil
    /\ pc = "String" => out = CommaJoined(config.initial \o config.values)

SetKeepsCommasAndEmpty ==
    /\ pc = "String"
    /\ config.initial = <<<<"e","x","i","s","t","i","n","g","=","v","a","l","u","e">>>>
    /\ config.values = <<<<"a","=","1",",","b","=","2">>, <<>>, <<"k","=","v">>>>
    /\ setValues = <<<<"e","x","i","s","t","i","n","g","=","v","a","l","u","e">>, <<"a","=","1",",","b","=","2">>, <<>>, <<"k","=","v">>>>
    /\ out = <<"e","x","i","s","t","i","n","g","=","v","a","l","u","e",",","a","=","1",",","b","=","2",",",",","k","=","v">>

-----------------------------------------------------------------------------
(* Properties of a value merged over a tree                                *)

\* the four sources in the order MergeValues merges them
MergeSources == <<yamlValues, envValues, setValues, config.Values>>
\* the i-th source holds key k
SourceHolds(i, k) == MergeSources[i] # Nil /\ k \in DOMAIN out.heap[MergeSources[i].a].m
\* what the i-th source holds at k
SourceValue(i, k) == out.heap[MergeSources[i].a].m[k]
\* the first n sources, nil maps in the place of the others
FirstSources(n) == [i \in 1..4 |-> IF i <= n THEN MergeSources[i] ELSE Nil]
\* the accumulator of MergeValues after the first n sources are merged
AccumulatorOf(r) == r.h[r.v.a].m
MergedFirst(n) ==
  MergeValues(out.heap, FirstSources(n)[1], FirstSources(n)[2],
              FirstSources(n)[3], FirstSources(n)[4])
Accumulator(n) == AccumulatorOf(MergedFirst(n))
\* a value that is a tree of either kind
IsTreeValue(h, v) == v.t = "ref" /\ h[v.a].kind \in {"map", "ymap"}
\* the i-th source holds a value that is no tree at k, where the accumulator
\* holds a tree
ValueOverTree(i, k) ==
  /\ SourceHolds(i, k)
  /\ ~IsTreeValue(out.heap, SourceValue(i, k))
  /\ k \in DOMAIN Accumulator(i - 1)
  /\ IsTreeValue(MergedFirst(i - 1).h, Accumulator(i - 1)[k])

\* C23: where a source holds a value that is no tree at a key at which the
\* accumulator holds a tree, merging that source leaves the value in the
\* place of the whole tree; unless a later source holds the key, the merged
\* tree holds the value there and no lookup below the key finds anything
ValueReplacesTree ==
  pc = "done" =>
    \A i \in 1..4, k \in MergeKeys :
      ValueOverTree(i, k) =>
        /\ Accumulator(i)[k] = SourceValue(i, k)
        /\ (\A j \in (i + 1)..4 : ~SourceHolds(j, k)) =>
             /\ heap[allValues.a].m[k] = SourceValue(i, k)
             /\ \A below \in MergeKeys :
                  Find(heap, allValues, <<k, below>>).k = "other"

\* the file holds a tree at a and the environment a string: the tree is gone
EnvironmentReplacesFileTree ==
  /\ pc = "done"
  /\ Deref(out.heap, yamlValues) = LMap(KA :> LYMap(KA :> LeafY) @@ KB :> LeafY)
  /\ Deref(out.heap, envValues) = LMap(KA :> LeafE)
  /\ \A j \in 3..4 : ~SourceHolds(j, KA)
  /\ ValueOverTree(2, KA)
  /\ Deref(heap, allValues).m[KA] = LeafE
  /\ Find(heap, allValues, <<KA, KA>>).k = "other"

-----------------------------------------------------------------------------
(* Properties of the output file of a template that fails                 *)

\* what the file system holds at a path, Nil when nothing
EntryAt(files, path) ==
  IF filepathClean(path) \in DOMAIN files THEN files[filepathClean(path)] ELSE Nil
\* processTemplateFile has not yet reached os.Create
BeforeCreate ==
  pc \in {"processTemplateFile", "ParseTemplate", "ensureOutputDir", "ExecuteTemplate"}
\* a step of processTemplateFile before os.Create leaves what is at the output
\* path as it is, and a failed execution hands no text on
OutputKeptStep ==
  BeforeCreate =>
    /\ EntryAt(fs', templateFile.OutputPath) = EntryAt(fs, templateFile.OutputPath)
    /\ pc = "ExecuteTemplate" /\ pc' = "return" => out' = <<>>
\* a run of a single template that failed before os.Create
FailedBeforeCreate ==
  /\ pc = "return"
  /\ err # Nil
  /\ index = 1
  /\ Len(templateFiles) = 1
  /\ \/ HasPrefix(ErrorMessage(err), <<"f","a","i","l","e","d"," ","t","o"," ","r","e","a","d"," ","t","e","m","p","l","a","t","e"," ","f","i","l","e"," ">>)
     \/ HasPrefix(ErrorMessage(err), <<"f","a","i","l","e","d"," ","t","o"," ","p","a","r","s","e"," ","t","e","m","p","l","a","t","e"," ">>)
     \/ HasPrefix(ErrorMessage(err), <<"f","a","i","l","e","d"," ","t","o"," ","e","x","e","c","u","t","e"," ","t","e","m","p","l","a","t","e"," ">>)
     \/ HasPrefix(ErrorMessage(err), <<"s","t","r","i","c","t"," ","m","o","d","e"," ","e","r","r","o","r"," ","i","n"," ">>)
\* after it the output path holds what it held before the run
OutputKeptReturn ==
  FailedBeforeCreate =>
    EntryAt(fs, config.OutputFile) = EntryAt(OldOutputs, config.OutputFile)
      \/ EntryAt(fs, config.OutputFile) = Nil

\* C25: processTemplateFile creates or truncates the output file only after
\* the template was read, parsed and executed: when one of these fails, a file
\* at the output path keeps its content, no new file appears there, and
\* ExecuteTemplate returns the empty string with the error
OutputOnlyAfterSuccess == []OutputKeptReturn /\ [][OutputKeptStep]_vars

\* strict db.tpl fails at its second lookup, after "localhost:" was written to
\* the buffer; the old out.txt is as it was
OldOutputSurvivesFailure ==
  /\ FailedBeforeCreate
  /\ config.TemplateFile = <<"d","b",".","t","p","l">>
  /\ config.StrictMode
  /\ HasPrefix(ErrorMessage(err), <<"s","t","r","i","c","t"," ","m","o","d","e"," ","e","r","r","o","r"," ","i","n"," ","d","b",".","t","p","l">>)
  /\ Contains(ErrorMessage(err), <<"'","p","a","s","s","w","o","r","d","'">>)
  /\ out = <<>>
  /\ EntryAt(fs, <<"o","u","t",".","t","x","t">>) = RegularFile(<<"o","l","d">>)

-----------------------------------------------------------------------------
(* Properties of the files a failed directory run leaves                  *)

\* the text the template at source renders to with the values of the run
RenderedText(source) ==
  ExecuteTemplate(heap,
                  ParseTemplate(NewStrictTemplate(filepathBase(source), config.StrictMode),
                                fs[filepathClean(source)].content).st,
                  allValues).result
\* the run failed at template index while executing it
FailedAtExecution ==
  /\ pc = "return"
  /\ err # Nil
  /\ index > 0
  /\ \/ HasPrefix(ErrorMessage(err), <<"f","a","i","l","e","d"," ","t","o"," ","e","x","e","c","u","t","e"," ","t","e","m","p","l","a","t","e"," ">>)
     \/ HasPrefix(ErrorMessage(err), <<"s","t","r","i","c","t"," ","m","o","d","e"," ","e","r","r","o","r"," ","i","n"," ">>)
\* after a failed run the outputs of the templates before the failing one
\* hold their whole text, and the output directory of a template that
\* failed to execute exists
NoRollbackReturn ==
  /\ pc = "return" /\ err # Nil /\ index > 0 =>
       \A i \in 1..(index - 1) :
         EntryAt(fs, templateFiles[i].OutputPath)
           = RegularFile(RenderedText(templateFiles[i].SourcePath))
  /\ FailedAtExecution =>
       EntryAt(fs, filepathDir(templateFile.OutputPath)) = Directory
\* no step removes a file or a directory
NoRollbackStep == \A p \in DOMAIN fs : p \in DOMAIN fs'

\* C26: a failed directory run is not rolled back. When template k fails, the
\* outputs of the templates 1..k-1 are written in full and stay after Process
\* returned the error, and the output directory of template k exists when it
\* failed at execution
NoRollback == []NoRollbackReturn /\ [][NoRollbackStep]_vars

\* templates/ with app.yaml: config.tpl, the last template, fails at
\* .database.port; out/a is written and out/srv/test-app is made for nothing
LaterTemplateFailsAtExecution ==
  /\ FailedAtExecution
  /\ config.TemplateFile = <<"t","e","m","p","l","a","t","e","s">>
  /\ index > 1
  /\ templateFile.SourcePath = <<"t","e","m","p","l","a","t","e","s","/","s","r","v","/","{","{",".","a","p","p",".","n","a","m","e","}","}","/","c","o","n","f","i","g",".","t","p","l">>
  /\ EntryAt(fs, <<"o","u","t","/","a">>) = RegularFile(<<"H","e","l","l","o"," ","t","e","s","t","-","a","p","p">>)
  /\ EntryAt(fs, <<"o","u","t","/","s","r","v","/","t","e","s","t","-","a","p","p">>) = Directory
  /\ <<"o","u","t","/","s","r","v","/","t","e","s","t","-","a","p","p","/","c","o","n","f","i","g">> \notin DOMAIN fs
\* broken/: b.tpl does not parse, a's output stays, c is not reached
LaterTemplateFailsAtParse ==
  /\ pc = "return"
  /\ index = 2
  /\ err # Nil
  /\ HasPrefix(ErrorMessage(err), <<"f","a","i","l","e","d"," ","t","o"," ","p","a","r","s","e"," ","t","e","m","p","l","a","t","e"," ","b","r","o","k","e","n","/","b",".","t","p","l">>)
  /\ EntryAt(fs, <<"o","u","t","/","a">>) = RegularFile(<<"f","i","r","s","t">>)
  /\ <<"o","u","t","/","b">> \notin DOMAIN fs

-----------------------------------------------------------------------------
(* Properties of a run whose values cannot be loaded                      *)

\* the values file of the run cannot be loaded, its overrides cannot be parsed
ValuesFileFails == LoadYAMLValues(<<>>, BaseFiles, config.ValuesFile).err # Nil
SetValuesFail == ParseSetValues(<<>>, config.SetValues).err # Nil
\* no template was found, read, parsed or executed and the file system is the
\* one before the run
NoTemplateWork ==
  /\ allValues = Nil
  /\ templateFiles = <<>>
  /\ index = 0
  /\ templateContent = <<>>
  /\ strictTemplate = Nil
  /\ out = Nil
  /\ fs \in FileSystems

\* C27: value errors abort before any template work. When loading the values
\* file or parsing the overrides fails, Process returns that error, whatever
\* the template path is, with no template touched and nothing created; the
\* error of the values file goes before the one of the overrides
ValueErrorsAbortFirst ==
  pc = "return" =>
    /\ ValuesFileFails =>
         /\ HasPrefix(ErrorMessage(err), <<"e","r","r","o","r"," ","l","o","a","d","i","n","g"," ","Y","A","M","L"," ","v","a","l","u","e","s",":"," ">>)
         /\ NoTemplateWork
    /\ ~ValuesFileFails /\ SetValuesFail =>
         /\ HasPrefix(ErrorMessage(err), <<"e","r","r","o","r"," ","p","a","r","s","i","n","g"," ","s","e","t"," ","v","a","l","u","e","s",":"," ">>)
         /\ NoTemplateWork

\* bad.yaml and the override "debug" on a template path that does not exist:
\* the error is the one of the values file
ValuesFileErrorFirst ==
  /\ pc = "return"
  /\ config.ValuesFile = <<"b","a","d",".","y","a","m","l">>
  /\ config.SetValues = <<<<"d","e","b","u","g">>>>
  /\ config.TemplateFile = <<"m","i","s","s","i","n","g",".","t","p","l">>
  /\ ValuesFileFails /\ SetValuesFail
  /\ ErrorMessage(err) = <<"e","r","r","o","r"," ","l","o","a","d","i","n","g"," ","Y","A","M","L"," ","v","a","l","u","e","s",":"," ","f","a","i","l","e","d"," ","t","o"," ","p","a","r","s","e"," ","Y","A","M","L",":"," ","y","a","m","l",":"," ","u","n","m","a","r","s","h","a","l"," ","e","r","r","o","r","s">>
  /\ NoTemplateWork
\* the override "debug" alone, on a directory of templates
SetErrorBeforeTemplates ==
  /\ pc = "return"
  /\ config.ValuesFile = <<"a","p","p",".","y","a","m","l">>
  /\ config.SetValues = <<<<"d","e","b","u","g">>>>
  /\ config.TemplateFile = <<"t","e","m","p","l","a","t","e","s">>
  /\ HasPrefix(ErrorMessage(err), <<"e","r","r","o","r"," ","p","a","r","s","i","n","g"," ","s","e","t"," ","v","a","l","u","e","s",":"," ">>)
  /\ NoTemplateWork

-----------------------------------------------------------------------------
(* Properties of MergeValues as a function of its arguments               *)

\* a second call of MergeValues with the same arguments, after the first
SecondMerge == MergeValues(heap, yamlValues, envValues, setValues, config.Values)
\* the keys of the four sources
SourceKeys == UNION {DOMAIN out.heap[MergeSources[i].a].m : i \in {j \in 1..4 : MergeSources[j] # Nil}}

\* C28: MergeValues has no side effect on its arguments. The merged map is a
\* new one that holds keys of the sources only, the call changes no container
\* that existed before it, so none of the four source trees at any depth, and
\* a second call with the same arguments returns another map that holds an
\* equal tree and leaves the first result as it is
MergeValuesPure ==
  pc = "done" =>
    /\ allValues.a \notin DOMAIN out.heap
    /\ DOMAIN heap[allValues.a].m \subseteq SourceKeys
    /\ \A a \in DOMAIN out.heap : heap[a] = out.heap[a]
    /\ \A i \in 1..4 : MergeSources[i] # Nil =>
         Deref(heap, MergeSources[i]) = Deref(out.heap, MergeSources[i])
    /\ SecondMerge.v # allValues
    /\ SecondMerge.v.a \notin DOMAIN heap
    /\ Deref(SecondMerge.h, SecondMerge.v) = Deref(heap, allValues)
    /\ Deref(SecondMerge.h, allValues) = Deref(heap, allValues)

\* all four sources hold values, nested ones too; the merged tree is none of
\* them and the sources are as before
MergedFromFourSources ==
  /\ pc = "done"
  /\ Deref(out.heap, yamlValues) = LMap(KA :> LYMap(KA :> LeafY) @@ KB :> LeafY)
  /\ Deref(out.heap, envValues) = LMap(KB :> LeafE)
  /\ Deref(out.heap, setValues) = LMap(KA :> LMap(KA :> LeafS))
  /\ Deref(out.heap, config.Values) = LMap(KA :> LMap(KB :> LeafC))
  /\ Deref(heap, allValues) = LMap(KA :> LMap(KA :> LeafS @@ KB :> LeafC) @@ KB :> LeafE)
  /\ Deref(heap, setValues) = LMap(KA :> LMap(KA :> LeafS))
  /\ Deref(SecondMerge.h, SecondMerge.v) = Deref(heap, allValues)
  /\ SecondMerge.v.a > allValues.a
\* the two results are different maps that hold the same nested mapping of
\* the values file
ResultsShareFileTree ==
  /\ pc = "done"
  /\ Deref(out.heap, yamlValues) = LMap(KA :> LYMap(KA :> LeafY))
  /\ SecondMerge.v # allValues
  /\ SecondMerge.h[SecondMerge.v.a].m[KA] = heap[allValues.a].m[KA]
  /\ heap[allValues.a].m[KA] = out.heap[yamlValues.a].m[KA]

-----------------------------------------------------------------------------
(* Properties of overrides that collide                                   *)

\* overrides of one pair each, and the key and the value of one
CollidingPairs == {<<"a",".","b","=","x">>, <<"a","=","5">>, <<"a",".","b","=","2",".","0">>}
PairKey(pair) == SliceTo(pair, Index(pair, <<"=">>))
PairValue(pair) == convertValue(SliceFrom(pair, Index(pair, <<"=">>) + 1))

\* C29: the nesting check of setNestedValue covers the intermediate segments
\* of a dotted key only, so the outcome of two colliding overrides depends on
\* their order: a.b=x and then a=5 succeeds and leaves 5 in the place of the
\* tree at a, a=5 and then a.b=x fails, and of two overrides of one key the
\* later one wins
CollidingOverrides ==
  pc = "ParseSetValues" =>
    \A p, q \in CollidingPairs :
      config.SetValues = <<p, q>> =>
        IF PairKey(p) = PairKey(q)
        THEN /\ err = Nil
             /\ Lookup(Deref(heap, setValues), Split(PairKey(q), <<".">>)) = PairValue(q)
        ELSE IF HasPrefix(PairKey(p), PairKey(q) \o <<".">>)
        THEN /\ err = Nil
             /\ Deref(heap, setValues) = LMap(PairKey(q) :> PairValue(q))
        ELSE /\ err = NestedError(PairKey(q), NotAMapError(PairKey(p)))
             /\ setValues = Nil

\* a.b=x and then a=5: the tree at a is gone
ValueOverSubtree ==
  /\ pc = "ParseSetValues"
  /\ config.SetValues = <<<<"a",".","b","=","x">>, <<"a","=","5">>>>
  /\ err = Nil
  /\ Deref(heap, setValues) = LMap(<<"a">> :> VInt(5))
\* a=5 and then a.b=x: the override fails at a
SubtreeUnderValue ==
  /\ pc = "ParseSetValues"
  /\ config.SetValues = <<<<"a","=","5">>, <<"a",".","b","=","x">>>>
  /\ ErrorMessage(err) = <<"e","r","r","o","r"," ","s","e","t","t","i","n","g"," ","n","e","s","t","e","d"," ","v","a","l","u","e"," ","f","o","r"," ","k","e","y"," ","a",".","b",":"," ","k","e","y"," ","a"," ","i","s"," ","n","o","t"," ","a"," ","m","a","p",","," ","c","a","n","n","o","t"," ","s","e","t"," ","n","e","s","t","e","d"," ","v","a","l","u","e">>
  /\ setValues = Nil
\* a.b twice: the later value
LaterOverrideWins ==
  /\ pc = "ParseSetValues"
  /\ config.SetValues = <<<<"a",".","b","=","2",".","0">>, <<"a",".","b","=","x">>>>
  /\ err = Nil
  /\ Deref(heap, setValues) = LMap(<<"a">> :> LMap(<<"b">> :> VStr(<<"x">>)))

-----------------------------------------------------------------------------
(* Properties of environment names that give one key                      *)

\* the environment enumerated in the opposite order
Reversed(l) == [i \in 1..Len(l) |-> l[Len(l) + 1 - i]]
\* the tree LoadEnvValues builds from an environment
EnvTreeOf(r) == Deref(r.h, r.v)
EnvTree(envs) == EnvTreeOf(LoadEnvValues(<<>>, envs))
\* two variables whose names give the same key hold different values
CollidingVars(i, j) ==
  /\ i < j
  /\ toCamelCase(EnvName(i)) = toCamelCase(EnvName(j))
  /\ EnvValue(i) # EnvValue(j)

\* C30: collisions of environment keys. Different names give the same key
\* (A_B, a_b and A__B give aB; FOO and foo give foo); LoadEnvValues keeps one
\* entry for the key, with the value of the variable enumerated last, so the
\* tree has at most as many entries as there are variables, and enumerating
\* two colliding variables in the other order gives another tree
EnvKeyCollisions ==
  /\ {toCamelCase(n) : n \in {<<"A","_","B">>, <<"a","_","b">>, <<"A","_","_","B">>}} = {<<"a","B">>}
  /\ {toCamelCase(n) : n \in {<<"F","O","O">>, <<"f","o","o">>}} = {<<"f","o","o">>}
  /\ pc = "LoadEnvValues" =>
       /\ Cardinality(DOMAIN heap[envValues.a].m) <= Cardinality(EnvVars)
       /\ \A i, j \in EnvVars :
            CollidingVars(i, j) =>
              /\ Cardinality(DOMAIN heap[envValues.a].m) < Cardinality(EnvVars)
              /\ heap[envValues.a].m[toCamelCase(EnvName(i))] = VStr(EnvValue(LastWithKey(i)))
              /\ LastWithKey(i) >= j
              /\ EnvVars = {i, j} => EnvTree(Reversed(environ)) # Deref(heap, envValues)

\* A__B and a_b: one entry aB with the value of the later one; the other
\* order gives the other value
EnvCollisionLastWins ==
  /\ pc = "LoadEnvValues"
  /\ environ = <<<<"A","_","_","B","=","1","0","0">>, <<"a","_","b","=","x","=","y">>>>
  /\ CollidingVars(1, 2)
  /\ Deref(heap, envValues) = LMap(<<"a","B">> :> VStr(<<"x","=","y">>))
  /\ EnvTree(Reversed(environ)) = LMap(<<"a","B">> :> VStr(<<"1","0","0">>))

====
